---- MODULE Spec2Model ----
(***************************************************************************)
(* Model of the local event store of src-tauri/src/main.rs: the SQLite     *)
(* tables (timeline_events, attachments, reminders), the tauri commands    *)
(* that read and write them under DbState.lock, and the reminder scanner   *)
(* task spawned by main, which opens its own connection.                   *)
(*                                                                         *)
(* Tables are sequences of rows in insertion order; the id of a row is its *)
(* position (generate_id yields a fresh id, rows are never removed).       *)
(* An Option<T> is a sequence of length <= 1: None == <<>>, Some(v) ==     *)
(* <<v>>.  Every SQL statement is one atomic step; any statement may fail  *)
(* (the code propagates the error with `?`, or drops it with `.ok()` or    *)
(* `let _ =`), which the actions draw as a nondeterministic outcome.       *)
(***************************************************************************)
EXTENDS Integers, Sequences, FiniteSets, TLC

\* ---------------------------------------------------------------- bounds
\* number of commands that write to the store in a run
MaxOps == 2
\* number of times the wall clock advances
MaxAdvance == 1
\* number of scanner ticks that find a due reminder
MaxTicks == 2
\* number of successful delete_event calls on one event
MaxDeletes == 2
\* number of generate_daily_export calls that write their file
MaxExports == 2
\* rows of the legacy drop_records table
MaxRecords == 2
\* tenths of a second the behavior task sees no activity for
MaxIdle == 10
\* wall clock (ms) of the initial state
StartTime == 100000

\* ------------------------------------------------------------- constants
\* snooze_reminder: snooze_minutes * 60 * 1000
MsPerMinute == 60 * 1000
\* the model's clock advances a minute at a time
ClockStep == MsPerMinute
\* list_events: request.page.unwrap_or(0), request.page_size.unwrap_or(50)
DefaultPage == 0
DefaultPageSize == 50
\* a page number and a page size whose product is 2^32
WidePage == 65536

\* ---------------------------------------------------------------- Option
None == <<>>
Some(v) == <<v>>
\* Option::or
OptOr(o, alt) == IF o # <<>> THEN o ELSE alt
\* Option::unwrap_or
UnwrapOr(o, d) == IF o # <<>> THEN o[1] ELSE d

\* ----------------------------------------------------------------- paths
\* The files a drop request can name.  PathGone has no extension and cannot
\* be opened (fs::metadata and File::open fail on it).
PathA == "/d/a.png"
PathB == "/d/b.txt"
PathGone == "/d/gone"
ReadableFiles == {PathA, PathB}

\* Path::file_name().and_then(to_str)
FileNameOf(p) ==
  CASE p = PathA -> Some("a.png")
    [] p = PathB -> Some("b.txt")
    [] p = PathGone -> Some("gone")
    [] OTHER -> None

\* Path::extension()?.to_str()?.to_lowercase()
ExtensionOf(p) ==
  CASE p = PathA -> Some("png")
    [] p = PathB -> Some("txt")
    [] OTHER -> None

Mime(top, sub) == [top |-> top, sub |-> sub]

\* get_mime_type: a mime type is kept as its two halves around the "/"
get_mime_type(p) ==
  LET ext == ExtensionOf(p) IN
  IF ext = None THEN None
  ELSE Some(CASE ext[1] \in {"jpg", "jpeg"} -> Mime("image", "jpeg")
              [] ext[1] = "png" -> Mime("image", "png")
              [] ext[1] = "gif" -> Mime("image", "gif")
              [] ext[1] = "webp" -> Mime("image", "webp")
              [] ext[1] = "svg" -> Mime("image", "svg+xml")
              [] ext[1] = "bmp" -> Mime("image", "bmp")
              [] ext[1] = "pdf" -> Mime("application", "pdf")
              [] ext[1] = "txt" -> Mime("text", "plain")
              [] ext[1] = "md" -> Mime("text", "markdown")
              [] ext[1] = "json" -> Mime("application", "json")
              [] ext[1] \in {"html", "htm"} -> Mime("text", "html")
              [] OTHER -> Mime("application", "octet-stream"))

\* is_image_type: mime.starts_with("image/")
is_image_type(mime) == mime # None /\ mime[1].top = "image"

\* hash_file(path).ok(): the digest of the file's content, None when the
\* file cannot be read
hash_file(p) == IF p \in ReadableFiles THEN Some(<<"sha256", p>>) ELSE None

\* fs::metadata(path).ok().map(len)
size_bytes(p) ==
  CASE p = PathA -> Some(3)
    [] p = PathB -> Some(0)
    [] OTHER -> None

\* ----------------------------------------------------------------- state
Threads == {"t1", "t2"}
NoThread == "free"

VARIABLES
  now,          \* the wall clock, ms
  opCount,      \* commands that have written to the store so far
  ticks,        \* scanner ticks that have found a due reminder so far
  events,       \* table timeline_events
  attachments,  \* table attachments
  reminders,    \* table reminders
  lock,         \* DbState.lock: the thread holding it, or NoThread
  pc,           \* per command thread: "idle" or the statement it is at
  call,         \* per command thread: the command and its arguments
  loc,          \* per command thread: the command's local variables
  last,         \* the return of the step just taken: thread, call, value
  spc,          \* scanner: "sleep", or "scan" while it loops over due_reminders
  tickNow,      \* scanner: the `now` read at the start of the tick
  due,          \* scanner: the rest of due_reminders, as read by the due query
  ehist,        \* history, per event: the request that created it
  rhist,        \* history, per reminder: what has happened to it
  exports,      \* table daily_exports, in insertion order
  files,        \* the exports directory: content of each file, by path
  xlog,         \* history: what each generate_daily_export rendered
  records,      \* table drop_records (legacy), in insertion order
  poisoned,     \* DbState.lock is poisoned: a command panicked holding it
  beh,          \* behavior analysis task: its local variables
  snap,         \* the behavior-analysis payload the pass just taken published
  settings,     \* table settings, in insertion order
  shist,        \* history, per key: the value of the last set_setting that returned Ok
  mouse,        \* mouse tracking task: its local variables and what its pass emitted
  passes        \* history: the parity of the passes of the scanner and mouse loops

store == <<events, attachments, reminders>>
extVars == <<exports, files, xlog, records, poisoned>>
behVars == <<beh, snap>>
setVars == <<settings, shist>>
loopVars == <<mouse, passes>>
auxVars == <<beh, snap, settings, shist, mouse, passes>>
vars == <<now, opCount, ticks, events, attachments, reminders, lock, pc, call,
          loc, last, spc, tickNow, due, ehist, rhist, exports, files, xlog,
          records, poisoned, beh, snap, settings, shist, mouse, passes>>

NoCall == [op |-> "none"]
NoLoc == [step |-> 0]
NoRet == [ok |-> FALSE, fault |-> FALSE, err |-> "none"]
Ok(v) == [ok |-> TRUE, fault |-> FALSE, value |-> v]
\* an error the command itself decides
Err(msg) == [ok |-> FALSE, fault |-> FALSE, err |-> msg]
\* an error of the storage layer (map_err(|e| e.to_string())?)
Fault(msg) == [ok |-> FALSE, fault |-> TRUE, err |-> msg]

Returned(t, c, r) == [thread |-> t, call |-> c, ret |-> r]
NoLast == Returned(NoThread, NoCall, NoRet)

\* ------------------------------------------------------------- f64 values
\* An f64 is modelled by the exact fraction it approximates: num / den with
\* den > 0, in lowest terms.
RECURSIVE Gcd(_, _)
Gcd(a, b) == IF b = 0 THEN a ELSE Gcd(b, a % b)

Frac(n, d) ==
  LET g == Gcd(IF n < 0 THEN -n ELSE n, d)
  IN IF g = 0 THEN [num |-> 0, den |-> 1] ELSE [num |-> n \div g, den |-> d \div g]

FracAdd(a, b) == Frac(a.num * b.den + b.num * a.den, a.den * b.den)
FracMul(a, b) == Frac(a.num * b.num, a.den * b.den)
\* a / b, for b > 0
FracDiv(a, b) == Frac(a.num * b.den, a.den * b.num)
FracLeq(a, b) == a.num * b.den <= b.num * a.den
\* f64::min
FracMin(a, b) == IF FracLeq(a, b) THEN a ELSE b

\* -------------------------------------------------- behavior analysis task
\* Time in this task is counted in tenths of a second, the period of its loop.
PollPeriod == 1
\* elapsed.as_secs() >= 2
AnalysisWindow == 20

\* tokio::time::sleep(100 ms) returns after at least 100 ms; the passes of
\* the model are 300 ms or a second apart
PollDelays == {3 * PollPeriod, 10 * PollPeriod}
\* device_state.get_keys()
KeySets == { {}, {"A"}, {"Backspace"}, {"A", "Backspace"} }
\* device_state.get_mouse().coords
MousePositions == { <<0, 0>>, <<3000, 4000>> }

\* let mut ... before the loop
BehaviorInit ==
  [last_keys |-> {}, last_mouse_pos |-> None, last_mouse_click |-> FALSE,
   key_press_count |-> 0, backspace_count |-> 0, mouse_click_count |-> 0,
   mouse_move_distance |-> 0, elapsed |-> 0, idle |-> 0]

\* (dx * dx + dy * dy).sqrt(), exact for the positions of the model
Distance(p, q) ==
  LET dx == (q[1] - p[1]) \div 1000
      dy == (q[2] - p[2]) \div 1000
  IN 1000 * (CHOOSE r \in 0..10 : r * r = dx * dx + dy * dy)

\* an activity level without the final min(1.0)
ActivityLevel_Uncapped(typing_speed, mouse_move_speed, mouse_click_count, time_window) ==
  FracAdd(FracAdd(FracMul(typing_speed, Frac(3, 10)),
                  FracMul(FracMin(FracDiv(mouse_move_speed, Frac(1000, 1)),
                                  Frac(1, 1)), Frac(3, 10))),
          FracMul(FracDiv(FracMin(FracDiv(Frac(mouse_click_count, 1),
                                          time_window), Frac(5, 1)),
                          Frac(5, 1)), Frac(4, 10)))

\* (typing_speed * 0.3 + (mouse_move_speed / 1000.0).min(1.0) * 0.3 +
\*  (mouse_click_count as f64 / time_window).min(5.0) / 5.0 * 0.4).min(1.0)
ActivityLevel(typing_speed, mouse_move_speed, mouse_click_count, time_window) ==
  FracMin(
    FracAdd(FracAdd(FracMul(typing_speed, Frac(3, 10)),
                    FracMul(FracMin(FracDiv(mouse_move_speed, Frac(1000, 1)),
                                    Frac(1, 1)), Frac(3, 10))),
            FracMul(FracDiv(FracMin(FracDiv(Frac(mouse_click_count, 1),
                                            time_window), Frac(5, 1)),
                            Frac(5, 1)), Frac(4, 10))),
    Frac(1, 1))

\* the BehaviorAnalysis payload of a window of `elapsed` tenths of a second
BehaviorAnalysis(b, elapsed, idle) ==
  LET time_window == Frac(elapsed, 10)
      typing_speed == IF time_window.num > 0
                      THEN FracDiv(Frac(b.key_press_count, 1), time_window)
                      ELSE Frac(0, 1)
      mouse_move_speed == IF time_window.num > 0
                          THEN FracDiv(Frac(b.mouse_move_distance, 1), time_window)
                          ELSE Frac(0, 1)
  IN [typing_speed |-> typing_speed,
      key_press_count |-> b.key_press_count,
      backspace_count |-> b.backspace_count,
      mouse_move_speed |-> mouse_move_speed,
      mouse_click_count |-> b.mouse_click_count,
      idle_time |-> Frac(idle, 10),
      activity_level |-> ActivityLevel(typing_speed, mouse_move_speed,
                                       b.mouse_click_count, time_window)]

\* mouse tracking task: let mut ... before the loop
MouseInit ==
  [last_x |-> None, last_y |-> None, last_button_pressed |-> FALSE,
   emitted |-> <<>>]

\* the keys and values the settings commands are called with
SettingKeys == {"k1", "k2"}
SettingValues == {"v1", "v2"}

Init ==
  /\ now = StartTime
  /\ opCount = 0
  /\ ticks = 0
  /\ events = <<>>
  /\ attachments = <<>>
  /\ reminders = <<>>
  /\ lock = NoThread
  /\ pc = [t \in Threads |-> "idle"]
  /\ call = [t \in Threads |-> NoCall]
  /\ loc = [t \in Threads |-> NoLoc]
  /\ last = NoLast
  /\ spc = "sleep"
  /\ tickNow = 0
  /\ due = <<>>
  /\ ehist = <<>>
  /\ exports = <<>>
  /\ files = <<>>
  /\ xlog = <<>>
  /\ records = <<>>
  /\ poisoned = FALSE
  /\ rhist = <<>>
  /\ beh = BehaviorInit
  /\ snap = <<>>
  /\ settings = <<>>
  /\ shist = [k \in SettingKeys |-> None]
  /\ mouse = MouseInit
  /\ passes = [scanner |-> 0, mouse |-> 0]


\* ------------------------------------------------------------------ rows
\* INSERT INTO reminders (id, event_id, remind_at, message, status, created_at)
\* VALUES (?1, ?2, ?3, ?4, 'pending', ?5): triggered_at and snooze_until NULL
ReminderRow(id, eventId, remindAt, message, createdAt) ==
  [id |-> id, eventId |-> eventId, remindAt |-> remindAt, message |-> message,
   status |-> "pending", triggeredAt |-> None, snoozeUntil |-> None,
   createdAt |-> createdAt]

\* the Reminder struct the create commands return
ReminderStruct(id, eventId, remindAt, message, createdAt) ==
  [id |-> id, eventId |-> eventId, remindAt |-> remindAt, message |-> message,
   status |-> "pending", triggeredAt |-> None, snoozeUntil |-> None,
   createdAt |-> createdAt]

\* UPDATE reminders SET status = 'snoozed', snooze_until = ? WHERE id = ?
SnoozedRow(r, snoozeUntil) ==
  [r EXCEPT !.status = "snoozed", !.snoozeUntil = Some(snoozeUntil)]

\* a dismiss that would set the status and leave triggered_at alone
DismissedRow_StatusOnly(r, at) == [r EXCEPT !.status = "dismissed"]

\* UPDATE reminders SET status = 'dismissed', triggered_at = ? WHERE id = ?
DismissedRow(r, at) ==
  [r EXCEPT !.status = "dismissed", !.triggeredAt = Some(at)]

\* UPDATE reminders SET status = 'triggered', triggered_at = ? WHERE id = ?
\* (the scanner's statement: it names the id only, not the status)
TriggeredRow(r, at) ==
  [r EXCEPT !.status = "triggered", !.triggeredAt = Some(at)]

\* the history kept beside a reminder row
NewReminderHist ==
  [everTriggered |-> FALSE, everDismissed |-> FALSE, userTouched |-> FALSE,
   procPending |-> FALSE, missed |-> FALSE, notifs |-> 0, payload |-> None]

EventIds == 1..Len(events)
ReminderIds == 1..Len(reminders)
\* an id no row has
MissingId == 0

\* SELECT ... FROM attachments WHERE event_id = ?
AttachmentsOf(eid) == SelectSeq(attachments, LAMBDA a : a.eventId = eid)
\* SELECT ... FROM reminders WHERE event_id = ?
RemindersOf(eid) == SelectSeq(reminders, LAMBDA r : r.eventId = eid)

RemoveAt(s, i) == SubSeq(s, 1, i - 1) \o SubSeq(s, i + 1, Len(s))

\* ----------------------------------------------------------------- clock
Advance ==
  /\ now < StartTime + MaxAdvance * ClockStep
  /\ now' = now + ClockStep
  /\ last' = NoLast
  /\ UNCHANGED <<opCount, ticks, events, attachments, reminders, lock, pc,
                 call, loc, spc, tickNow, due, ehist, rhist>>
  /\ UNCHANGED extVars
  /\ UNCHANGED auxVars

\* -------------------------------------------------------- command frame
\* state.lock.lock() then Connection::open(&state.path): the command blocks
\* until the lock is free.  A failed open returns the error with nothing
\* written, as a failed first statement does: the first statement's failure
\* stands for both.  (writes: the command can write, and is held to MaxOps)
Begin(t, c, l, first, writes) ==
  /\ pc[t] = "idle"
  /\ writes => opCount < MaxOps
  /\ lock = NoThread
  /\ ~poisoned
  /\ opCount' = opCount
  /\ lock' = t
  /\ pc' = [pc EXCEPT ![t] = first]
  /\ call' = [call EXCEPT ![t] = c]
  /\ loc' = [loc EXCEPT ![t] = l]
  /\ last' = NoLast

\* a return that would keep the guard alive
Return_KeepGuard(t, r, wrote) ==
  /\ lock' = lock
  /\ pc' = [pc EXCEPT ![t] = "idle"]
  /\ call' = [call EXCEPT ![t] = NoCall]
  /\ loc' = [loc EXCEPT ![t] = NoLoc]
  /\ last' = Returned(t, call[t], r)
  /\ opCount' = IF wrote THEN opCount + 1 ELSE opCount

\* return: _guard is dropped (wrote: the command is counted in opCount)
Return(t, r, wrote) ==
  /\ lock' = NoThread
  /\ pc' = [pc EXCEPT ![t] = "idle"]
  /\ call' = [call EXCEPT ![t] = NoCall]
  /\ loc' = [loc EXCEPT ![t] = NoLoc]
  /\ last' = Returned(t, call[t], r)
  /\ opCount' = IF wrote THEN opCount + 1 ELSE opCount

\* ------------------------------------------------------ reminder commands
\* create_reminder(event_id, remind_at, message)
create_reminder(t) ==
  /\ \E eid \in EventIds \cup {MissingId} :
       Begin(t, [op |-> "create_reminder", eventId |-> eid,
                 remindAt |-> now + ClockStep, message |-> "m"],
             [created_at |-> now], "create_reminder", TRUE)
  /\ UNCHANGED <<now, ticks, events, attachments, reminders, spc, tickNow,
                 due, ehist, rhist>>
  /\ UNCHANGED extVars
  /\ UNCHANGED auxVars

create_reminder_run(t) ==
  /\ pc[t] = "create_reminder"
  /\ LET c == call[t]
         id == Len(reminders) + 1
     IN \E ok \in BOOLEAN :
          IF ok
          THEN /\ reminders' = Append(reminders,
                     ReminderRow(id, c.eventId, c.remindAt, c.message,
                                 loc[t].created_at))
               /\ rhist' = Append(rhist, NewReminderHist)
               /\ Return(t, Ok(ReminderStruct(id, c.eventId, c.remindAt,
                                              c.message, loc[t].created_at)),
                         TRUE)
          ELSE /\ UNCHANGED <<reminders, rhist>>
               /\ Return(t, Fault("insert reminder"), FALSE)
  /\ UNCHANGED <<now, ticks, events, attachments, spc, tickNow, due, ehist>>
  /\ UNCHANGED extVars
  /\ UNCHANGED auxVars

SnoozeMinutes == {0, 1}

\* snooze_reminder(reminder_id, snooze_minutes)
snooze_reminder(t) ==
  /\ \E rid \in ReminderIds, m \in SnoozeMinutes :
       Begin(t, [op |-> "snooze_reminder", reminderId |-> rid, minutes |-> m],
             NoLoc, "snooze", TRUE)
  /\ UNCHANGED <<now, ticks, events, attachments, reminders, spc, tickNow,
                 due, ehist, rhist>>
  /\ UNCHANGED extVars
  /\ UNCHANGED auxVars

snooze_reminder_run(t) ==
  /\ pc[t] = "snooze"
  /\ LET rid == call[t].reminderId
         snooze_until == now + call[t].minutes * MsPerMinute
     IN \E ok \in BOOLEAN :
          IF ok
          THEN /\ reminders' = [reminders EXCEPT
                                  ![rid] = SnoozedRow(@, snooze_until)]
               /\ rhist' = [rhist EXCEPT ![rid].userTouched = TRUE]
               /\ Return(t, Ok(snooze_until), TRUE)
          ELSE /\ UNCHANGED <<reminders, rhist>>
               /\ Return(t, Fault("update reminder"), FALSE)
  /\ UNCHANGED <<now, ticks, events, attachments, spc, tickNow, due, ehist>>
  /\ UNCHANGED extVars
  /\ UNCHANGED auxVars

\* dismiss_reminder(reminder_id)
dismiss_reminder(t) ==
  /\ \E rid \in ReminderIds :
       Begin(t, [op |-> "dismiss_reminder", reminderId |-> rid], NoLoc,
             "dismiss", TRUE)
  /\ UNCHANGED <<now, ticks, events, attachments, reminders, spc, tickNow,
                 due, ehist, rhist>>
  /\ UNCHANGED extVars
  /\ UNCHANGED auxVars

dismiss_reminder_run(t) ==
  /\ pc[t] = "dismiss"
  /\ LET rid == call[t].reminderId
         triggered_at == now
     IN \E ok \in BOOLEAN :
          IF ok
          THEN /\ reminders' = [reminders EXCEPT
                                  ![rid] = DismissedRow(@, triggered_at)]
               /\ rhist' = [rhist EXCEPT ![rid].userTouched = TRUE,
                                         ![rid].everDismissed = TRUE]
               /\ Return(t, Ok(triggered_at), TRUE)
          ELSE /\ UNCHANGED <<reminders, rhist>>
               /\ Return(t, Fault("update reminder"), FALSE)
  /\ UNCHANGED <<now, ticks, events, attachments, spc, tickNow, due, ehist>>
  /\ UNCHANGED extVars
  /\ UNCHANGED auxVars

\* ------------------------------------------------------- reminder scanner
\* WHERE (status = 'pending' AND remind_at <= ?1)
\*    OR (status = 'snoozed' AND snooze_until <= ?1)
IsDue(r, t) ==
  \/ r.status = "pending" /\ r.remindAt <= t
  \/ r.status = "snoozed" /\ r.snoozeUntil # None /\ r.snoozeUntil[1] <= t

\* a due query that would return the rows in insertion order
ReminderBefore_Inserted(a, b) == a.id < b.id

\* ORDER BY remind_at ASC (rows with equal remind_at in insertion order)
ReminderBefore(a, b) ==
  a.remindAt < b.remindAt \/ (a.remindAt = b.remindAt /\ a.id < b.id)

RECURSIVE SortReminders(_)
SortReminders(s) ==
  IF s = <<>> THEN <<>>
  ELSE LET m == CHOOSE i \in 1..Len(s) :
                  \A j \in 1..Len(s) : j # i => ReminderBefore(s[i], s[j])
       IN <<s[m]>> \o SortReminders(RemoveAt(s, m))

\* the due query of a tick that read `t` as its now
DueReminders(t) ==
  SortReminders(SelectSeq(reminders, LAMBDA r : IsDue(r, t)))

\* a scanner that would end its task at a tick that failed
AfterTick_Exit(failed) == IF failed THEN "stopped" ELSE "sleep"

\* loop { sleep; .. }: `if let Ok(conn)` has no else and nothing in the body
\* returns, so a tick that failed is followed by the next sleep
AfterTick(failed) == "sleep"

\* The tick up to the due query.  The task sleeps, reads the clock, opens its
\* own connection (no DbState is involved) and reads due_reminders; a failed
\* open skips the tick, a failed query leaves due_reminders empty.
\* (Of the ticks whose connection opens, MaxTicks are followed.)
ScanBegin ==
  /\ spc = "sleep"
  /\ tickNow' = now
  /\ \E connOk \in (IF ticks < MaxTicks THEN BOOLEAN ELSE {FALSE}),
        queryOk \in BOOLEAN :
       LET d == IF connOk /\ queryOk THEN DueReminders(now) ELSE <<>>
       IN /\ due' = d
          /\ spc' = IF d = <<>> THEN AfterTick(~connOk \/ ~queryOk) ELSE "scan"
          /\ ticks' = IF d = <<>> THEN ticks ELSE ticks + 1
  /\ passes' = [passes EXCEPT !.scanner = 1 - @]
  /\ last' = NoLast
  /\ UNCHANGED <<now, opCount, events, attachments, reminders, lock, pc, call,
                 loc, ehist, rhist>>
  /\ UNCHANGED extVars
  /\ UNCHANGED <<beh, snap, settings, shist, mouse>>

EmitOutcomes == {"emitted", "no_window", "emit_failed"}

\* a parent lookup that would answer with a placeholder for a missing event
ParentLookup_Placeholder(eid, lookupOk) == Some([id |-> eid])

\* SELECT ... FROM timeline_events WHERE id = ? ... .ok(): no row and a failed
\* query are both None
ParentLookup(eid, lookupOk) ==
  IF lookupOk /\ eid \in EventIds THEN Some(events[eid]) ELSE None

\* a loop that would leave the tick at the first reminder it fails on
AfterReminder_Break(rest, failed) == IF failed THEN <<>> ELSE rest

\* for reminder in due_reminders { .. }: the body has no break, return or `?`,
\* so the loop goes on to the rest whatever happened to this reminder
AfterReminder(rest, failed) == rest

\* ReminderDuePayload { reminder: reminder.clone(), event, attachments }
ReminderDuePayload(reminder, event, atts) ==
  [reminder |-> reminder, event |-> event, attachments |-> atts]

\* One iteration of `for reminder in due_reminders`: the parent lookup, the
\* attachments query (a failed one is taken for no attachments), the UPDATE (its result dropped by `let _ =`) and the
\* emit (skipped without a main window, its result dropped as well).
ScanOne ==
  /\ spc = "scan"
  /\ due # <<>>
  /\ LET reminder == Head(due)
     IN \E lookupOk \in BOOLEAN, attOk \in BOOLEAN, updateOk \in BOOLEAN,
           emit \in EmitOutcomes :
          LET event == ParentLookup(reminder.eventId, lookupOk)
              found == event # None
              atts == IF attOk THEN AttachmentsOf(reminder.eventId) ELSE <<>>
              marked == found /\ updateOk
              published == found /\ emit = "emitted"
          IN /\ reminders' =
                  IF marked
                  THEN [reminders EXCEPT
                          ![reminder.id] = TriggeredRow(@, tickNow)]
                  ELSE reminders
             /\ rhist' = [rhist EXCEPT
                  ![reminder.id].everTriggered = @ \/ marked,
                  ![reminder.id].procPending =
                     @ \/ (reminder.status = "pending"
                           /\ reminder.eventId \in EventIds),
                  ![reminder.id].missed =
                     @ \/ reminder.eventId \notin EventIds,
                  ![reminder.id].notifs = @ + (IF published THEN 1 ELSE 0),
                  ![reminder.id].payload =
                     IF published
                     THEN Some(ReminderDuePayload(reminder, event[1], atts))
                     ELSE @]
             /\ due' = AfterReminder(Tail(due), ~marked \/ ~published)
             /\ spc' = IF due' = <<>> THEN "sleep" ELSE "scan"
  /\ last' = NoLast
  /\ UNCHANGED <<now, opCount, ticks, events, attachments, lock, pc, call,
                 loc, tickNow, ehist>>
  /\ UNCHANGED extVars
  /\ UNCHANGED auxVars


\* ------------------------------------------------------------ event rows
\* create_text_event: INSERT INTO timeline_events (id, type, note,
\* text_content, created_at, source, is_deleted) VALUES (.., 'manual', 0)
TextEventRow(id, req, createdAt) ==
  [id |-> id,
   type |-> IF req.textContent # None THEN "text" ELSE "thought",
   title |-> None, note |-> Some(req.note), textContent |-> req.textContent,
   createdAt |-> createdAt, source |-> Some("manual"), isDeleted |-> FALSE]

\* the TimelineEvent struct create_text_event returns
TextEventStruct(id, req, createdAt) ==
  [id |-> id,
   type |-> IF req.textContent # None THEN "text" ELSE "thought",
   title |-> None, note |-> Some(req.note), textContent |-> req.textContent,
   createdAt |-> createdAt, source |-> Some("manual"), isDeleted |-> FALSE]

\* create_text_event: request.remind_message.unwrap_or_else(|| note.clone())
TextReminderMessage(req) == UnwrapOr(req.remindMessage, req.note)

\* create_drop_event: the event type comes from the first path alone
DropEventType(paths) ==
  IF is_image_type(get_mime_type(paths[1])) THEN "image" ELSE "file"

\* create_drop_event: title = file name of the first path
DropTitle(paths) == FileNameOf(paths[1])

\* create_drop_event: INSERT INTO timeline_events (id, type, title, note,
\* created_at, source, is_deleted) VALUES (.., 'drop', 0)
DropEventRow(id, req, createdAt) ==
  [id |-> id, type |-> DropEventType(req.paths), title |-> DropTitle(req.paths),
   note |-> req.note, textContent |-> None, createdAt |-> createdAt,
   source |-> Some("drop"), isDeleted |-> FALSE]

\* the TimelineEvent struct create_drop_event returns
DropEventStruct(id, req, createdAt) ==
  [id |-> id, type |-> DropEventType(req.paths), title |-> DropTitle(req.paths),
   note |-> req.note, textContent |-> None, createdAt |-> createdAt,
   source |-> Some("drop"), isDeleted |-> FALSE]

AttachmentKind(path) ==
  IF is_image_type(get_mime_type(path)) THEN "image" ELSE "file"

\* an attachment INSERT that would bind the attachment's id as event_id
AttachmentRow_OwnId(id, eventId, path, createdAt) ==
  [id |-> id, eventId |-> id, kind |-> AttachmentKind(path),
   originalPath |-> path, storedPath |-> None, fileName |-> FileNameOf(path),
   mimeType |-> get_mime_type(path), sizeBytes |-> size_bytes(path),
   sha256 |-> hash_file(path), width |-> None, height |-> None,
   createdAt |-> createdAt]

\* create_drop_event: INSERT INTO attachments (id, event_id, kind,
\* original_path, file_name, mime_type, size_bytes, sha256, created_at)
AttachmentRow(id, eventId, path, createdAt) ==
  [id |-> id, eventId |-> eventId, kind |-> AttachmentKind(path),
   originalPath |-> path, storedPath |-> None, fileName |-> FileNameOf(path),
   mimeType |-> get_mime_type(path), sizeBytes |-> size_bytes(path),
   sha256 |-> hash_file(path), width |-> None, height |-> None,
   createdAt |-> createdAt]

\* the Attachment struct pushed to the returned list
AttachmentStruct(id, eventId, path, createdAt) ==
  [id |-> id, eventId |-> eventId, kind |-> AttachmentKind(path),
   originalPath |-> path, storedPath |-> None, fileName |-> FileNameOf(path),
   mimeType |-> get_mime_type(path), sizeBytes |-> size_bytes(path),
   sha256 |-> hash_file(path), width |-> None, height |-> None,
   createdAt |-> createdAt]

\* create_drop_event: remind_message, else note, else title, else "Reminder"
DropReminderMessage(req) ==
  UnwrapOr(OptOr(req.remindMessage, req.note),
           UnwrapOr(DropTitle(req.paths), "Reminder"))

\* a delete that would flip is_deleted
DeletedRow_Toggle(e) == [e EXCEPT !.isDeleted = ~@]

\* a delete that would also blank the note
DeletedRow_ClearsNote(e) == [e EXCEPT !.isDeleted = TRUE, !.note = None]

\* UPDATE timeline_events SET is_deleted = 1 WHERE id = ?
DeletedRow(e) == [e EXCEPT !.isDeleted = TRUE]

\* ---------------------------------------------------------------- inputs
TextRequests ==
  { [note |-> "n", textContent |-> None, remindAt |-> None,
     remindMessage |-> None],
    [note |-> "n", textContent |-> Some("body"), remindAt |-> Some(now - 1),
     remindMessage |-> None] }

DropRequests ==
  { [paths |-> <<>>, note |-> None, remindAt |-> Some(now - 1),
     remindMessage |-> None],
    [paths |-> <<PathA, PathA>>, note |-> Some("n"), remindAt |-> None,
     remindMessage |-> None],
    [paths |-> <<PathGone, PathB>>, note |-> None, remindAt |-> Some(now - 1),
     remindMessage |-> None] }

ListRequests ==
  { [startDate |-> None, endDate |-> None, page |-> None, pageSize |-> None],
    [startDate |-> Some(now), endDate |-> None, page |-> Some(0),
     pageSize |-> Some(1)],
    [startDate |-> None, endDate |-> Some(now), page |-> Some(1),
     pageSize |-> Some(1)],
    [startDate |-> None, endDate |-> None, page |-> Some(WidePage),
     pageSize |-> Some(WidePage)] }

\* --------------------------------------------------------- event commands
create_text_event(t) ==
  /\ \E req \in TextRequests :
       Begin(t, [op |-> "create_text_event", req |-> req],
             [created_at |-> now], "text", TRUE)
  /\ UNCHANGED <<now, ticks, events, attachments, reminders, spc, tickNow,
                 due, ehist, rhist>>
  /\ UNCHANGED extVars
  /\ UNCHANGED auxVars

\* the event INSERT and, when remind_at is given, the reminder INSERT; an
\* error of either returns at once, with what was written before it kept
create_text_event_run(t) ==
  /\ pc[t] = "text"
  /\ LET req == call[t].req
         created_at == loc[t].created_at
         event_id == Len(events) + 1
         reminder_id == Len(reminders) + 1
         wants == req.remindAt # None
         message == TextReminderMessage(req)
     IN \E failed \in {"none", "event", "reminder"} :
          /\ failed = "reminder" => wants
          /\ events' = IF failed = "event" THEN events
                       ELSE Append(events, TextEventRow(event_id, req, created_at))
          /\ ehist' = IF failed = "event" THEN ehist
                      ELSE Append(ehist, [nPaths |-> 0, wantsReminder |-> wants,
                                           deletes |-> 0])
          /\ IF failed = "none" /\ wants
             THEN /\ reminders' = Append(reminders,
                        ReminderRow(reminder_id, event_id, req.remindAt[1],
                                    message, created_at))
                  /\ rhist' = Append(rhist, NewReminderHist)
             ELSE UNCHANGED <<reminders, rhist>>
          /\ IF failed = "none"
             THEN Return(t, Ok([event |-> TextEventStruct(event_id, req, created_at),
                                attachments |-> <<>>,
                                reminders |->
                                  IF wants
                                  THEN <<ReminderStruct(reminder_id, event_id,
                                           req.remindAt[1], message, created_at)>>
                                  ELSE <<>>]), TRUE)
             ELSE Return(t, Fault(failed), failed = "reminder")
  /\ UNCHANGED <<now, ticks, attachments, spc, tickNow, due>>
  /\ UNCHANGED extVars
  /\ UNCHANGED auxVars

\* a create_drop_event that would not look at the number of paths
PathsRejected_Never(paths) == FALSE

\* if request.paths.is_empty() { return Err("No files provided") }
PathsRejected(paths) == paths = <<>>

\* create_drop_event up to the open connection; the empty request returns
\* before the lock is asked for
create_drop_event(t) ==
  /\ \E req \in DropRequests :
       IF PathsRejected(req.paths)
       THEN /\ pc[t] = "idle"
            /\ opCount < MaxOps
            /\ last' = Returned(t, [op |-> "create_drop_event", req |-> req],
                                 Err("No files provided"))
            /\ UNCHANGED <<lock, pc, call, loc, opCount>>
       ELSE Begin(t, [op |-> "create_drop_event", req |-> req],
                  [event_id |-> Len(events) + 1, created_at |-> now,
                   attachments |-> <<>>, events0 |-> Len(events),
                   attachments0 |-> Len(attachments)],
                  "drop_event", TRUE)
  /\ UNCHANGED <<now, ticks, events, attachments, reminders, spc, tickNow,
                 due, ehist, rhist>>
  /\ UNCHANGED extVars
  /\ UNCHANGED auxVars

\* INSERT INTO timeline_events
create_drop_event_insert_event(t) ==
  /\ pc[t] = "drop_event"
  /\ LET req == call[t].req IN
     \E ok \in BOOLEAN :
       IF ok
       THEN /\ events' = Append(events,
                  DropEventRow(loc[t].event_id, req, loc[t].created_at))
            /\ ehist' = Append(ehist, [nPaths |-> Len(req.paths),
                                       wantsReminder |-> req.remindAt # None,
                                       deletes |-> 0])
            /\ pc' = [pc EXCEPT ![t] = "drop_attachment"]
            /\ opCount' = opCount + 1
            /\ last' = NoLast
            /\ UNCHANGED <<lock, call, loc>>
       ELSE /\ UNCHANGED <<events, ehist>>
            /\ Return(t, Fault("insert event"), FALSE)
  /\ UNCHANGED <<now, ticks, attachments, reminders, spc, tickNow, due, rhist>>
  /\ UNCHANGED extVars
  /\ UNCHANGED auxVars

\* one iteration of `for path_str in &request.paths`
create_drop_event_insert_attachment(t) ==
  /\ pc[t] = "drop_attachment"
  /\ LET req == call[t].req
         i == Len(loc[t].attachments) + 1
         attach_id == Len(attachments) + 1
     IN \E ok \in BOOLEAN :
          IF ok
          THEN /\ attachments' = Append(attachments,
                     AttachmentRow(attach_id, loc[t].event_id, req.paths[i],
                                   loc[t].created_at))
               /\ loc' = [loc EXCEPT ![t].attachments =
                     Append(@, AttachmentStruct(attach_id, loc[t].event_id,
                                                req.paths[i], loc[t].created_at))]
               /\ pc' = [pc EXCEPT ![t] =
                     IF i = Len(req.paths) THEN "drop_reminder"
                     ELSE "drop_attachment"]
               /\ last' = NoLast
               /\ UNCHANGED <<lock, call, opCount>>
          ELSE /\ UNCHANGED attachments
               /\ Return(t, Fault("insert attachment"), FALSE)
  /\ UNCHANGED <<now, ticks, events, reminders, spc, tickNow, due, ehist, rhist>>
  /\ UNCHANGED extVars
  /\ UNCHANGED auxVars

\* the reminder INSERT when remind_at is given, then Ok(..)
create_drop_event_finish(t) ==
  /\ pc[t] = "drop_reminder"
  /\ LET req == call[t].req
         event_id == loc[t].event_id
         created_at == loc[t].created_at
         reminder_id == Len(reminders) + 1
         wants == req.remindAt # None
         message == DropReminderMessage(req)
     IN \E ok \in BOOLEAN :
          /\ ~ok => wants
          /\ IF ok /\ wants
             THEN /\ reminders' = Append(reminders,
                        ReminderRow(reminder_id, event_id, req.remindAt[1],
                                    message, created_at))
                  /\ rhist' = Append(rhist, NewReminderHist)
             ELSE UNCHANGED <<reminders, rhist>>
          /\ IF ok
             THEN Return(t, Ok([event |-> DropEventStruct(event_id, req, created_at),
                                attachments |-> loc[t].attachments,
                                reminders |->
                                  IF wants
                                  THEN <<ReminderStruct(reminder_id, event_id,
                                           req.remindAt[1], message, created_at)>>
                                  ELSE <<>>]), FALSE)
             ELSE Return(t, Fault("insert reminder"), FALSE)
  /\ UNCHANGED <<now, ticks, events, attachments, spc, tickNow, due, ehist>>
  /\ UNCHANGED extVars
  /\ UNCHANGED auxVars

\* delete_event(event_id); a call on an event that is deleted already changes
\* no row and is not counted among the writing commands
delete_event(t) ==
  /\ \E eid \in EventIds :
       /\ ehist[eid].deletes < MaxDeletes
       /\ Begin(t, [op |-> "delete_event", eventId |-> eid], NoLoc, "delete",
                ~events[eid].isDeleted)
  /\ UNCHANGED <<now, ticks, events, attachments, reminders, spc, tickNow,
                 due, ehist, rhist>>
  /\ UNCHANGED extVars
  /\ UNCHANGED auxVars

delete_event_run(t) ==
  /\ pc[t] = "delete"
  /\ \E ok \in BOOLEAN :
       IF ok
       THEN /\ events' = [events EXCEPT ![call[t].eventId] = DeletedRow(@)]
            /\ ehist' = [ehist EXCEPT ![call[t].eventId].deletes = @ + 1]
            /\ Return(t, Ok("unit"), ~events[call[t].eventId].isDeleted)
       ELSE /\ UNCHANGED <<events, ehist>>
            /\ Return(t, Fault("update event"), FALSE)
  /\ UNCHANGED <<now, ticks, attachments, reminders, spc, tickNow, due, rhist>>
  /\ UNCHANGED extVars
  /\ UNCHANGED auxVars

\* a note update that would also restamp the event
NotedRow_Restamped(e, note) == [e EXCEPT !.note = Some(note), !.createdAt = now]

\* UPDATE timeline_events SET note = ? WHERE id = ?
NotedRow(e, note) == [e EXCEPT !.note = Some(note)]

NewNotes == {"n2"}

update_event_note(t) ==
  /\ \E eid \in EventIds \cup {MissingId}, note \in NewNotes :
       Begin(t, [op |-> "update_event_note", eventId |-> eid, note |-> note],
             NoLoc, "note", TRUE)
  /\ UNCHANGED <<now, ticks, events, attachments, reminders, spc, tickNow,
                 due, ehist, rhist>>
  /\ UNCHANGED extVars
  /\ UNCHANGED auxVars

\* an id that no event has updates no row and is still Ok
update_event_note_run(t) ==
  /\ pc[t] = "note"
  /\ \E ok \in BOOLEAN :
       IF ok
       THEN /\ events' = [i \in 1..Len(events) |->
                            IF events[i].id = call[t].eventId
                            THEN NotedRow(events[i], call[t].note)
                            ELSE events[i]]
            /\ Return(t, Ok("unit"), TRUE)
       ELSE /\ UNCHANGED events
            /\ Return(t, Fault("update event"), FALSE)
  /\ UNCHANGED <<now, ticks, attachments, reminders, spc, tickNow, due,
                 ehist, rhist>>
  /\ UNCHANGED extVars
  /\ UNCHANGED auxVars

\* a list_events that would not filter on is_deleted
ListVisible_All(e) == TRUE

\* list_events: WHERE is_deleted = 0
ListVisible(e) == ~e.isDeleted

\* list_events: AND created_at >= start, AND created_at <= end, when given
ListInRange(e, req) ==
  /\ req.startDate # None => e.createdAt >= req.startDate[1]
  /\ req.endDate # None => e.createdAt <= req.endDate[1]

\* ORDER BY created_at DESC (rows with equal created_at newest insert first)
EventBefore(a, b) ==
  a.createdAt > b.createdAt \/ (a.createdAt = b.createdAt /\ a.id > b.id)

RECURSIVE SortEvents(_)
SortEvents(s) ==
  IF s = <<>> THEN <<>>
  ELSE LET m == CHOOSE i \in 1..Len(s) :
                  \A j \in 1..Len(s) : j # i => EventBefore(s[i], s[j])
       IN <<s[m]>> \o SortEvents(RemoveAt(s, m))

\* the event with its attachments and reminders
WithAttachments(e) ==
  [event |-> e, attachments |-> AttachmentsOf(e.id),
   reminders |-> RemindersOf(e.id)]

\* a u32 as its four bytes, least significant first
U32Bytes(n) == [i \in 0..3 |-> (n \div (256 ^ i)) % 256]

\* the sum of the byte products of weight 256^k in a * b
MulColumn(a, b, k) ==
  LET Term(i) == IF k - i \in 0..3 THEN a[i] * b[k - i] ELSE 0
  IN Term(0) + Term(1) + Term(2) + Term(3)

\* page * page_size on u32: the low 32 bits of the product, and whether the
\* product has any bit above them
MulU32(x, y) ==
  LET a == U32Bytes(x)
      b == U32Bytes(y)
      s0 == MulColumn(a, b, 0)
      s1 == MulColumn(a, b, 1) + (s0 \div 256)
      s2 == MulColumn(a, b, 2) + (s1 \div 256)
      s3 == MulColumn(a, b, 3) + (s2 \div 256)
      above == (s3 \div 256) + MulColumn(a, b, 4) + MulColumn(a, b, 5)
                 + MulColumn(a, b, 6)
  IN [bytes |-> <<s0 % 256, s1 % 256, s2 % 256, s3 % 256>>,
      overflow |-> above # 0]

\* OFFSET ?: the rows left after skipping the first offset rows
SkipRows(rows, offset) ==
  LET skip == IF offset[4] # 0 \/ offset[3] # 0 THEN Len(rows)
              ELSE LET n == offset[1] + 256 * offset[2]
                   IN IF n < Len(rows) THEN n ELSE Len(rows)
  IN SubSeq(rows, skip + 1, Len(rows))

\* LIMIT ?: the first page_size rows
TakeRows(rows, page_size) ==
  SubSeq(rows, 1, IF page_size < Len(rows) THEN page_size ELSE Len(rows))

\* list_events: the offset the query is given
ListOffset(req) ==
  MulU32(UnwrapOr(req.page, DefaultPage),
         UnwrapOr(req.pageSize, DefaultPageSize))

\* list_events: LIMIT page_size OFFSET page * page_size
ListEventsResult(req) ==
  LET page_size == UnwrapOr(req.pageSize, DefaultPageSize)
      offset == ListOffset(req).bytes
      rows == SortEvents(SelectSeq(events,
                LAMBDA e : ListVisible(e) /\ ListInRange(e, req)))
      paged == TakeRows(SkipRows(rows, offset), page_size)
  IN [i \in 1..Len(paged) |-> WithAttachments(paged[i])]

list_events(t) ==
  /\ \E req \in ListRequests :
       Begin(t, [op |-> "list_events", req |-> req], NoLoc, "list", FALSE)
  /\ UNCHANGED <<now, ticks, events, attachments, reminders, spc, tickNow,
                 due, ehist, rhist>>
  /\ UNCHANGED extVars
  /\ UNCHANGED auxVars

\* A failed open returns before the offset is computed.  An offset that does
\* not fit u32 wraps in a build without overflow checks and panics in a build
\* with them; the panic unwinds through _guard, which poisons the Mutex.
list_events_run(t) ==
  /\ pc[t] = "list"
  /\ \E outcome \in {"rows", "open", "query"}, overflow_checks \in BOOLEAN :
       IF outcome = "open"
       THEN Return(t, Fault("open"), FALSE) /\ UNCHANGED poisoned
       ELSE IF ListOffset(call[t].req).overflow /\ overflow_checks
       THEN /\ lock' = NoThread
            /\ poisoned' = TRUE
            /\ pc' = [pc EXCEPT ![t] = "idle"]
            /\ call' = [call EXCEPT ![t] = NoCall]
            /\ loc' = [loc EXCEPT ![t] = NoLoc]
            /\ last' = NoLast
            /\ opCount' = opCount
       ELSE IF outcome = "query"
       THEN Return(t, Fault("query"), FALSE) /\ UNCHANGED poisoned
       ELSE /\ Return(t, Ok(ListEventsResult(call[t].req)), FALSE)
            /\ UNCHANGED poisoned
  /\ UNCHANGED <<now, ticks, events, attachments, reminders, spc, tickNow,
                 due, ehist, rhist>>
  /\ UNCHANGED <<exports, files, xlog, records>>
  /\ UNCHANGED auxVars

\* state.lock.lock().map_err(|_| "db lock"): on a poisoned Mutex every
\* command returns this error before it opens a connection
PoisonedCommands == {"list_events", "save_mock_result"}

db_lock_poisoned(t) ==
  /\ pc[t] = "idle"
  /\ poisoned
  /\ \E op \in PoisonedCommands :
       last' = Returned(t, [op |-> op], Err("db lock"))
  /\ UNCHANGED <<now, opCount, ticks, events, attachments, reminders, lock,
                 pc, call, loc, spc, tickNow, due, ehist, rhist>>
  /\ UNCHANGED extVars
  /\ UNCHANGED auxVars

\* get_event_detail: SELECT ... FROM timeline_events WHERE id = ?
DetailLookup(eid) == IF eid \in EventIds THEN Some(events[eid]) ELSE None

get_event_detail(t) ==
  /\ \E eid \in EventIds \cup {MissingId} :
       Begin(t, [op |-> "get_event_detail", eventId |-> eid], NoLoc, "detail", FALSE)
  /\ UNCHANGED <<now, ticks, events, attachments, reminders, spc, tickNow,
                 due, ehist, rhist>>
  /\ UNCHANGED extVars
  /\ UNCHANGED auxVars

\* any error of the event query is reported as "Event not found"; an error
\* preparing the attachments or reminders query is returned as it is
get_event_detail_run(t) ==
  /\ pc[t] = "detail"
  /\ LET found == DetailLookup(call[t].eventId) IN
     \E failed \in {"none", "event", "children"} :
       CASE failed = "event" ->
              Return(t, [ok |-> FALSE, fault |-> TRUE, err |-> "Event not found"], FALSE)
         [] failed = "children" /\ found # None ->
              Return(t, Fault("query"), FALSE)
         [] OTHER ->
              IF found = None THEN Return(t, Err("Event not found"), FALSE)
              ELSE Return(t, Ok(WithAttachments(found[1])), FALSE)
  /\ UNCHANGED <<now, ticks, events, attachments, reminders, spc, tickNow,
                 due, ehist, rhist>>
  /\ UNCHANGED extVars
  /\ UNCHANGED auxVars

\* ---------------------------------------------------------------- export
\* the date keys and formats a caller sends: the first day, the second once
\* it has begun, and a key that names no date
DateKeys ==
  {"1970-01-01", "1970-02-30"}
    \cup (IF now >= 24 * 60 * MsPerMinute THEN {"1970-01-02"} ELSE {})
ExportFormats == {"md", "html", "pdf"}

\* a parse that would take every key for 1970-01-01
ParseDate_AnyKey(date_key) == Some(0)

\* NaiveDate::parse_from_str(&date_key, "%Y-%m-%d"), as days since 1970-01-01
ParseDate(date_key) ==
  CASE date_key = "1970-01-01" -> Some(0)
    [] date_key = "1970-01-02" -> Some(1)
    [] OTHER -> None

MsPerDay == 24 * 60 * MsPerMinute
\* Local.from_local_datetime(00:00:00).timestamp_millis(); Local is UTC here
start_of_day(day) == day * MsPerDay
\* an end of day that would stop at 23:59:59.000
end_of_day_WholeSecond(day) == day * MsPerDay + ((23 * 60 + 59) * 60 + 59) * 1000

\* Local.from_local_datetime(23:59:59).timestamp_millis() + 999
end_of_day(day) == day * MsPerDay + ((23 * 60 + 59) * 60 + 59) * 1000 + 999

\* ORDER BY created_at ASC
EventAfter(a, b) ==
  a.createdAt < b.createdAt \/ (a.createdAt = b.createdAt /\ a.id < b.id)

RECURSIVE SortEventsAsc(_)
SortEventsAsc(s) ==
  IF s = <<>> THEN <<>>
  ELSE LET m == CHOOSE i \in 1..Len(s) :
                  \A j \in 1..Len(s) : j # i => EventAfter(s[i], s[j])
       IN <<s[m]>> \o SortEventsAsc(RemoveAt(s, m))

\* SELECT ... FROM timeline_events WHERE created_at >= ?1 AND created_at <= ?2
\* AND is_deleted = 0 ORDER BY created_at ASC
ExportEvents(day) ==
  SortEventsAsc(SelectSeq(events, LAMBDA e :
    /\ e.createdAt >= start_of_day(day)
    /\ e.createdAt <= end_of_day(day)
    /\ ~e.isDeleted))

\* one line of the rendered text: its leading mark, its text, its icon and,
\* where the line carries one, a number
Line(mark, text, icon, n) == [mark |-> mark, text |-> text, icon |-> icon, n |-> n]

\* a time column that would show the time of the export
FormatTime_OfCall(ms) ==
  LET m == now \div MsPerMinute IN ((m \div 60) % 24) * 100 + (m % 60)

\* dt.with_timezone(&Local).format("%H:%M"), as hh * 100 + mm
FormatTime(ms) ==
  LET m == ms \div MsPerMinute IN ((m \div 60) % 24) * 100 + (m % 60)

EventIcon(type) ==
  CASE type = "image" -> "picture"
    [] type = "text" -> "memo"
    [] type = "thought" -> "thought"
    [] OTHER -> "page"

\* the attachments of an event as the export reads them: a failed query is
\* taken for no attachments (.ok() ... .unwrap_or_default())
ExportAttachments(e, attOk) == IF attOk THEN AttachmentsOf(e.id) ELSE <<>>

\* the lines one event adds to the content
RenderEvent(e, atts) ==
  <<Line("## ", UnwrapOr(e.title, "Untitled"), EventIcon(e.type),
         FormatTime(e.createdAt))>>
  \o (IF e.note # None /\ e.note[1] # ""
      THEN <<Line("", e.note[1], "", 0)>> ELSE <<>>)
  \o (IF e.textContent # None /\ e.textContent[1] # ""
      THEN <<Line("fence", e.textContent[1], "", 0)>> ELSE <<>>)
  \o (IF atts # <<>>
      THEN <<Line("**Attachments:**", "", "", 0)>>
           \o [i \in 1..Len(atts) |->
                 Line("- ", UnwrapOr(atts[i].fileName, "Unknown"),
                      IF atts[i].kind = "image" THEN "picture" ELSE "clip", 0)]
           \o <<Line("", "", "", 0)>>
      ELSE <<>>)
  \o <<Line("---", "", "", 0)>>

RECURSIVE RenderEvents(_, _)
RenderEvents(evs, attOk) ==
  IF evs = <<>> THEN <<>>
  ELSE RenderEvent(Head(evs), ExportAttachments(Head(evs), attOk))
       \o RenderEvents(Tail(evs), attOk)

\* the Markdown content
RenderMarkdown(date_key, evs, attOk) ==
  <<Line("# Daily Record - ", date_key, "", 0),
    Line("", " records", "", Len(evs)),
    Line("---", "", "", 0)>>
  \o RenderEvents(evs, attOk)

\* content.replace("\n", "<br>\n").replace("# ", "<h1>").replace("## ", "<h2>"):
\* the second replace has turned every "## " into "#<h1>" before the third
HtmlLine(l) ==
  [l EXCEPT !.mark = CASE l.mark = "# Daily Record - " -> "<h1>Daily Record - "
                       [] l.mark = "## " -> "#<h1>"
                       [] OTHER -> l.mark,
            !.text = l.text,
            !.icon = l.icon]

\* final_content
FinalContent(date_key, format, content) ==
  IF format = "html"
  THEN [wrap |-> "html", title |-> date_key,
        lines |-> [i \in 1..Len(content) |-> HtmlLine(content[i])]]
  ELSE [wrap |-> "none", title |-> "", lines |-> content]

\* file_ext
FileExt(format) == IF format = "html" THEN "html" ELSE "md"
\* exports_dir.join(format!("{}.{}", date_key, file_ext))
OutputPath(date_key, format) == [stem |-> date_key, ext |-> FileExt(format)]

\* fs::write(&output_path, &final_content)
WriteFile(fs, path, content) ==
  [p \in DOMAIN fs \cup {path} |-> IF p = path THEN content ELSE fs[p]]

\* INSERT INTO daily_exports ... ON CONFLICT(date_key, output_format)
\* DO UPDATE SET output_path = ?4, created_at = ?5
UpsertExport(rows, date_key, format, path, createdAt) ==
  IF \E i \in 1..Len(rows) :
       rows[i].dateKey = date_key /\ rows[i].outputFormat = format
  THEN [i \in 1..Len(rows) |->
          IF rows[i].dateKey = date_key /\ rows[i].outputFormat = format
          THEN [rows[i] EXCEPT !.outputPath = path, !.createdAt = createdAt]
          ELSE rows[i]]
  ELSE Append(rows, [id |-> Len(rows) + 1, dateKey |-> date_key,
                     outputFormat |-> format, outputPath |-> path,
                     createdAt |-> createdAt])

\* what the store holds for a day: its events and their attachments
StoredForDay(day) ==
  LET evs == SelectSeq(events, LAMBDA e :
               e.createdAt >= start_of_day(day) /\ e.createdAt <= end_of_day(day))
  IN [events |-> evs,
      attachments |-> SelectSeq(attachments, LAMBDA a :
                        \E i \in 1..Len(evs) : evs[i].id = a.eventId)]

generate_daily_export(t) ==
  /\ Len(xlog) < MaxExports
  /\ \E date_key \in DateKeys, format \in ExportFormats :
       Begin(t, [op |-> "generate_daily_export", dateKey |-> date_key,
                 format |-> format], NoLoc, "export", FALSE)
  /\ UNCHANGED <<now, ticks, events, attachments, reminders, spc, tickNow,
                 due, ehist, rhist>>
  /\ UNCHANGED extVars
  /\ UNCHANGED auxVars

\* generate_daily_export after the lock: open, parse, the event query, the
\* rendering, the file, the export row; each ? returns the error.  A failure
\* of the event query, of the directory or of fs::write (taken to leave the
\* file as it was) is the outcome "write"; xlog keeps the calls that wrote.
generate_daily_export_run(t) ==
  /\ pc[t] = "export"
  /\ LET date_key == call[t].dateKey
         format == call[t].format
         naive_date == ParseDate(date_key)
     IN \E failed \in {"none", "open", "write", "upsert"}, attOk \in BOOLEAN :
          IF failed = "open" \/ naive_date = None \/ failed = "write"
          THEN /\ Return(t, IF failed = "open" THEN Fault("open")
                            ELSE IF naive_date = None
                                 THEN Err("Invalid date format")
                                 ELSE Fault("write"), FALSE)
               /\ UNCHANGED <<exports, files, xlog>>
          ELSE LET evs == ExportEvents(naive_date[1])
                   final_content ==
                     FinalContent(date_key, format,
                                  RenderMarkdown(date_key, evs, attOk))
                   output_path == OutputPath(date_key, format)
               IN /\ xlog' = Append(xlog,
                       [dateKey |-> date_key, format |-> format, at |-> now,
                        stored |-> StoredForDay(naive_date[1]),
                        attFault |-> \E i \in 1..Len(evs) :
                                      ExportAttachments(evs[i], attOk)
                                        # AttachmentsOf(evs[i].id),
                        content |-> final_content,
                        done |-> failed = "none"])
                  /\ files' = WriteFile(files, output_path, final_content)
                  /\ exports' = IF failed = "none"
                                THEN UpsertExport(exports, date_key, format,
                                                  output_path, now)
                                ELSE exports
                  /\ Return(t, IF failed = "none" THEN Ok(output_path)
                               ELSE Fault(failed), FALSE)
  /\ UNCHANGED <<now, ticks, events, attachments, reminders, spc, tickNow,
                 due, ehist, rhist, records, poisoned>>
  /\ UNCHANGED auxVars

\* ---------------------------------------------------------- legacy records
\* drop_records rows: the legacy table, one row per processed drop
RecordIds == 1..Len(records)

\* INSERT INTO drop_records (path, hash, created_at): the other columns NULL
DropRecordRow(id, path, hash, created_at) ==
  [id |-> id, path |-> path, hash |-> hash, created_at |-> created_at,
   summary |-> None, actions |-> None, memory |-> None, tags |-> None]

\* SystemTime::now() ... as_secs()
NowSecs == now \div 1000

LegacyDrops == { <<>>, <<PathA>>, <<PathGone, PathB>> }

\* process_drop_paths: an empty drop is refused before the lock is taken
process_drop_paths_command(t) ==
  /\ pc[t] = "idle"
  /\ \E paths \in LegacyDrops :
       IF paths = <<>>
       THEN /\ last' = Returned(t, [op |-> "process_drop_paths_command",
                                    paths |-> paths], Err("empty drop"))
            /\ UNCHANGED <<opCount, lock, pc, call, loc>>
       ELSE /\ Len(records) < MaxRecords
            /\ Begin(t, [op |-> "process_drop_paths_command", paths |-> paths],
                     NoLoc, "drop_record", FALSE)
  /\ UNCHANGED <<now, ticks, events, attachments, reminders, spc, tickNow,
                 due, ehist, rhist>>
  /\ UNCHANGED extVars
  /\ UNCHANGED auxVars

\* insert_drop_record(&state.path, &first_path); drop(guard); result
process_drop_paths_insert(t) ==
  /\ pc[t] = "drop_record"
  /\ LET first_path == call[t].paths[1]
         hash == hash_file(first_path)
     IN \E ok \in BOOLEAN :
          IF hash = None
          THEN /\ Return(t, Err("hash_file"), FALSE)
               /\ UNCHANGED records
          ELSE IF ~ok
          THEN /\ Return(t, Fault("insert drop record"), FALSE)
               /\ UNCHANGED records
          ELSE LET row == DropRecordRow(Len(records) + 1, first_path,
                                        hash[1], NowSecs)
               IN /\ records' = Append(records, row)
                  /\ Return(t, Ok(row), FALSE)
  /\ UNCHANGED <<now, ticks, events, attachments, reminders, spc, tickNow,
                 due, ehist, rhist>>
  /\ UNCHANGED <<exports, files, xlog, poisoned>>
  /\ UNCHANGED auxVars

SaveKinds == {"summarize", "actions", "remember", "tags"}
SaveContents == {"c1", "c2"}

\* a save_mock_result that would file every result under summary
KindColumn_Summary(kind) ==
  IF kind \in {"summarize", "actions", "remember"} THEN Some("summary")
  ELSE None

\* save_mock_result: match kind.as_str()
KindColumn(kind) ==
  CASE kind = "summarize" -> Some("summary")
    [] kind = "actions" -> Some("actions")
    [] kind = "remember" -> Some("memory")
    [] OTHER -> None

\* UPDATE drop_records SET {column} = ?1 WHERE id = ?2
SetColumn(rows, column, content, record_id) ==
  [i \in 1..Len(rows) |->
     IF rows[i].id # record_id THEN rows[i]
     ELSE CASE column = "summary" -> [rows[i] EXCEPT !.summary = Some(content)]
            [] column = "actions" -> [rows[i] EXCEPT !.actions = Some(content)]
            [] column = "memory" -> [rows[i] EXCEPT !.memory = Some(content)]]

save_mock_result(t) ==
  /\ \E record_id \in RecordIds \cup {MissingId}, kind \in SaveKinds,
        content \in SaveContents :
       Begin(t, [op |-> "save_mock_result", recordId |-> record_id,
                 kind |-> kind, content |-> content], NoLoc, "save", TRUE)
  /\ UNCHANGED <<now, ticks, events, attachments, reminders, spc, tickNow,
                 due, ehist, rhist>>
  /\ UNCHANGED extVars
  /\ UNCHANGED auxVars

save_mock_result_run(t) ==
  /\ pc[t] = "save"
  /\ LET column == KindColumn(call[t].kind)
     IN \E failed \in {"none", "open", "update"} :
          IF failed = "open"
          THEN /\ Return(t, Fault("open"), FALSE)
               /\ UNCHANGED records
          ELSE IF column = None
          THEN /\ Return(t, Err("unknown kind"), FALSE)
               /\ UNCHANGED records
          ELSE IF failed = "update"
          THEN /\ Return(t, Fault("update"), FALSE)
               /\ UNCHANGED records
          ELSE /\ records' = SetColumn(records, column[1], call[t].content,
                                       call[t].recordId)
               /\ Return(t, Ok("unit"), TRUE)
  /\ UNCHANGED <<now, ticks, events, attachments, reminders, spc, tickNow,
                 due, ehist, rhist>>
  /\ UNCHANGED <<exports, files, xlog, poisoned>>
  /\ UNCHANGED auxVars

\* ------------------------------------------------------ settings commands
\* SELECT value FROM settings WHERE key = ?: None for QueryReturnedNoRows
SettingLookup(rows, key) ==
  LET hits == SelectSeq(rows, LAMBDA r : r.key = key)
  IN IF hits = <<>> THEN None ELSE Some(hits[1].value)

\* a set_setting that would insert a row whether or not the key is stored
UpsertSetting_Insert(rows, key, value) ==
  Append(rows, [key |-> key, value |-> value])

\* INSERT INTO settings (key, value) VALUES (?1, ?2)
\* ON CONFLICT(key) DO UPDATE SET value = ?2
UpsertSetting(rows, key, value) ==
  IF \E i \in 1..Len(rows) : rows[i].key = key
  THEN [i \in 1..Len(rows) |->
          IF rows[i].key = key THEN [rows[i] EXCEPT !.value = value]
          ELSE rows[i]]
  ELSE Append(rows, [key |-> key, value |-> value])

\* SELECT key, value FROM settings
SettingPairs(rows) == [i \in 1..Len(rows) |-> <<rows[i].key, rows[i].value>>]

set_setting(t) ==
  /\ \E key \in SettingKeys, value \in SettingValues :
       Begin(t, [op |-> "set_setting", key |-> key, value |-> value],
             NoLoc, "set_setting", TRUE)
  /\ UNCHANGED <<now, ticks, events, attachments, reminders, spc, tickNow,
                 due, ehist, rhist>>
  /\ UNCHANGED extVars
  /\ UNCHANGED auxVars

set_setting_run(t) ==
  /\ pc[t] = "set_setting"
  /\ \E ok \in BOOLEAN :
       IF ok
       THEN /\ settings' = UpsertSetting(settings, call[t].key, call[t].value)
            /\ shist' = [shist EXCEPT ![call[t].key] = Some(call[t].value)]
            /\ Return(t, Ok("unit"), TRUE)
       ELSE /\ UNCHANGED <<settings, shist>>
            /\ Return(t, Fault("upsert setting"), FALSE)
  /\ UNCHANGED <<now, ticks, events, attachments, reminders, spc, tickNow,
                 due, ehist, rhist>>
  /\ UNCHANGED extVars
  /\ UNCHANGED behVars
  /\ UNCHANGED loopVars

get_setting(t) ==
  /\ \E key \in SettingKeys :
       Begin(t, [op |-> "get_setting", key |-> key], NoLoc, "get_setting", FALSE)
  /\ UNCHANGED <<now, ticks, events, attachments, reminders, spc, tickNow,
                 due, ehist, rhist>>
  /\ UNCHANGED extVars
  /\ UNCHANGED auxVars

get_setting_run(t) ==
  /\ pc[t] = "get_setting"
  /\ \E ok \in BOOLEAN :
       IF ok THEN Return(t, Ok(SettingLookup(settings, call[t].key)), FALSE)
       ELSE Return(t, Fault("query setting"), FALSE)
  /\ UNCHANGED <<now, ticks, events, attachments, reminders, spc, tickNow,
                 due, ehist, rhist>>
  /\ UNCHANGED extVars
  /\ UNCHANGED auxVars

list_settings(t) ==
  /\ Begin(t, [op |-> "list_settings"], NoLoc, "list_settings", FALSE)
  /\ UNCHANGED <<now, ticks, events, attachments, reminders, spc, tickNow,
                 due, ehist, rhist>>
  /\ UNCHANGED extVars
  /\ UNCHANGED auxVars

list_settings_run(t) ==
  /\ pc[t] = "list_settings"
  /\ \E ok \in BOOLEAN :
       IF ok THEN Return(t, Ok(SettingPairs(settings)), FALSE)
       ELSE Return(t, Fault("query settings"), FALSE)
  /\ UNCHANGED <<now, ticks, events, attachments, reminders, spc, tickNow,
                 due, ehist, rhist>>
  /\ UNCHANGED extVars
  /\ UNCHANGED auxVars

\* ----------------------------------------------------- mouse tracking loop
\* device_state.get_mouse(): coords and the left button
MouseCoords == {0, 1}

\* One pass of the loop: sleep 16 ms, read the mouse, emit global-mouse-move
\* when the position changed and global-mouse-button when the button did.
\* (window: the main window exists; the results of emit are dropped)
mouse_poll ==
  \E x \in MouseCoords, y \in MouseCoords, button_pressed \in BOOLEAN,
     window \in BOOLEAN :
    LET moved == mouse.last_x # Some(x) \/ mouse.last_y # Some(y)
        pressed == mouse.last_button_pressed # button_pressed
        move == IF moved /\ window
                THEN <<[event |-> "global-mouse-move", x |-> x, y |-> y,
                        buttonPressed |-> button_pressed]>>
                ELSE <<>>
        press == IF pressed /\ window
                 THEN <<[event |-> "global-mouse-button", x |-> x, y |-> y,
                         buttonPressed |-> button_pressed]>>
                 ELSE <<>>
    IN /\ mouse' = [last_x |-> Some(x), last_y |-> Some(y),
                    last_button_pressed |-> button_pressed,
                    emitted |-> move \o press]
       /\ passes' = [passes EXCEPT !.mouse = 1 - @]
       /\ UNCHANGED <<now, opCount, ticks, events, attachments, reminders,
                      lock, pc, call, loc, last, spc, tickNow, due, ehist,
                      rhist>>
       /\ UNCHANGED extVars
       /\ UNCHANGED <<beh, snap, settings, shist>>

\* ------------------------------------------------ behavior analysis loop
\* One pass of the loop: sleep, read the devices, count, and publish and reset
\* when two seconds have passed since the last analysis.  (published: the main
\* window exists; the result of emit is dropped)
\* a reset that would leave the accumulated distance
ResetCounters_KeepDistance(b) ==
  [b EXCEPT !.key_press_count = 0, !.backspace_count = 0,
            !.mouse_click_count = 0, !.elapsed = 0]

\* key_press_count = 0; backspace_count = 0; mouse_click_count = 0;
\* mouse_move_distance = 0.0; last_analysis_time = current_time
ResetCounters(b) ==
  [b EXCEPT !.key_press_count = 0, !.backspace_count = 0,
            !.mouse_click_count = 0, !.mouse_move_distance = 0,
            !.elapsed = 0]

behavior_poll ==
  \E delay \in PollDelays, keys \in KeySets, pos \in MousePositions,
     button \in BOOLEAN, published \in BOOLEAN :
    LET keyed == Cardinality(keys) > Cardinality(beh.last_keys)
        backspaced == /\ keyed
                      /\ "Backspace" \in keys
                      /\ "Backspace" \notin beh.last_keys
        distance == IF beh.last_mouse_pos = None THEN 0
                    ELSE Distance(beh.last_mouse_pos[1], pos)
        clicked == button /\ ~beh.last_mouse_click
        active == keyed \/ distance > 0 \/ clicked
        elapsed == beh.elapsed + delay
        idle == IF active THEN 0 ELSE beh.idle + delay
        counted ==
          [beh EXCEPT
             !.key_press_count = IF keyed THEN @ + 1 ELSE @,
             !.backspace_count = IF backspaced THEN @ + 1 ELSE @,
             !.mouse_move_distance = @ + distance,
             !.mouse_click_count = IF clicked THEN @ + 1 ELSE @,
             !.last_keys = keys,
             !.last_mouse_pos = Some(pos),
             !.last_mouse_click = button,
             !.elapsed = elapsed,
             !.idle = idle]
    IN /\ idle <= MaxIdle
       /\ IF elapsed >= AnalysisWindow
          THEN /\ snap' = IF published
                          THEN <<[analysis |-> BehaviorAnalysis(counted, elapsed, idle),
                                  window |-> elapsed]>>
                          ELSE <<>>
               /\ beh' = ResetCounters(counted)
          ELSE /\ beh' = counted
               /\ snap' = <<>>
       /\ UNCHANGED <<now, opCount, ticks, events, attachments, reminders,
                      lock, pc, call, loc, last, spc, tickNow, due, ehist,
                      rhist>>
       /\ UNCHANGED extVars
       /\ UNCHANGED setVars
       /\ UNCHANGED loopVars

\* ------------------------------------------------------------------ next
Next ==
  \/ Advance
  \/ ScanBegin
  \/ ScanOne
  \/ \E t \in Threads : create_reminder(t)
  \/ \E t \in Threads : create_reminder_run(t)
  \/ \E t \in Threads : snooze_reminder(t)
  \/ \E t \in Threads : snooze_reminder_run(t)
  \/ \E t \in Threads : dismiss_reminder(t)
  \/ \E t \in Threads : dismiss_reminder_run(t)
  \/ \E t \in Threads : create_text_event(t)
  \/ \E t \in Threads : create_text_event_run(t)
  \/ \E t \in Threads : create_drop_event(t)
  \/ \E t \in Threads : create_drop_event_insert_event(t)
  \/ \E t \in Threads : create_drop_event_insert_attachment(t)
  \/ \E t \in Threads : create_drop_event_finish(t)
  \/ \E t \in Threads : delete_event(t)
  \/ \E t \in Threads : delete_event_run(t)
  \/ \E t \in Threads : list_events(t)
  \/ \E t \in Threads : list_events_run(t)
  \/ \E t \in Threads : db_lock_poisoned(t)
  \/ \E t \in Threads : get_event_detail(t)
  \/ \E t \in Threads : get_event_detail_run(t)
  \/ \E t \in Threads : generate_daily_export(t)
  \/ \E t \in Threads : generate_daily_export_run(t)
  \/ \E t \in Threads : process_drop_paths_command(t)
  \/ \E t \in Threads : process_drop_paths_insert(t)
  \/ \E t \in Threads : save_mock_result(t)
  \/ \E t \in Threads : save_mock_result_run(t)
  \/ \E t \in Threads : update_event_note(t)
  \/ \E t \in Threads : update_event_note_run(t)
  \/ behavior_poll
  \/ mouse_poll
  \/ \E t \in Threads : set_setting(t)
  \/ \E t \in Threads : set_setting_run(t)
  \/ \E t \in Threads : get_setting(t)
  \/ \E t \in Threads : get_setting_run(t)
  \/ \E t \in Threads : list_settings(t)
  \/ \E t \in Threads : list_settings_run(t)

Spec == Init /\ [][Next]_vars

\* the reminder life cycle: commands on reminders and the scanner
NextReminders ==
  \/ Advance
  \/ ScanBegin
  \/ ScanOne
  \/ \E t \in Threads : create_text_event(t)
  \/ \E t \in Threads : create_text_event_run(t)
  \/ \E t \in Threads : create_reminder(t)
  \/ \E t \in Threads : create_reminder_run(t)
  \/ \E t \in Threads : snooze_reminder(t)
  \/ \E t \in Threads : snooze_reminder_run(t)
  \/ \E t \in Threads : dismiss_reminder(t)
  \/ \E t \in Threads : dismiss_reminder_run(t)

SpecReminders == Init /\ [][NextReminders]_vars

\* the timeline: commands on events and attachments
NextEvents ==
  \/ Advance
  \/ \E t \in Threads : create_text_event(t)
  \/ \E t \in Threads : create_text_event_run(t)
  \/ \E t \in Threads : create_drop_event(t)
  \/ \E t \in Threads : create_drop_event_insert_event(t)
  \/ \E t \in Threads : create_drop_event_insert_attachment(t)
  \/ \E t \in Threads : create_drop_event_finish(t)
  \/ \E t \in Threads : delete_event(t)
  \/ \E t \in Threads : delete_event_run(t)
  \/ \E t \in Threads : list_events(t)
  \/ \E t \in Threads : list_events_run(t)
  \/ \E t \in Threads : db_lock_poisoned(t)
  \/ \E t \in Threads : get_event_detail(t)
  \/ \E t \in Threads : get_event_detail_run(t)

SpecEvents == Init /\ [][NextEvents]_vars

\* the daily export: files are dropped, days are exported
NextExport ==
  \/ Advance
  \/ \E t \in Threads : create_drop_event(t)
  \/ \E t \in Threads : create_drop_event_insert_event(t)
  \/ \E t \in Threads : create_drop_event_insert_attachment(t)
  \/ \E t \in Threads : create_drop_event_finish(t)
  \/ \E t \in Threads : generate_daily_export(t)
  \/ \E t \in Threads : generate_daily_export_run(t)

SpecExport == Init /\ [][NextExport]_vars

\* the legacy table: drops are recorded, mock results are saved
NextLegacy ==
  \/ Advance
  \/ \E t \in Threads : process_drop_paths_command(t)
  \/ \E t \in Threads : process_drop_paths_insert(t)
  \/ \E t \in Threads : save_mock_result(t)
  \/ \E t \in Threads : save_mock_result_run(t)

SpecLegacy == Init /\ [][NextLegacy]_vars

\* the rows over their lifetime: every command and tick that updates a row
NextRows ==
  \/ Advance
  \/ ScanBegin
  \/ ScanOne
  \/ \E t \in Threads : create_text_event(t)
  \/ \E t \in Threads : create_text_event_run(t)
  \/ \E t \in Threads : create_drop_event(t)
  \/ \E t \in Threads : create_drop_event_insert_event(t)
  \/ \E t \in Threads : create_drop_event_insert_attachment(t)
  \/ \E t \in Threads : create_drop_event_finish(t)
  \/ \E t \in Threads : create_reminder(t)
  \/ \E t \in Threads : create_reminder_run(t)
  \/ \E t \in Threads : snooze_reminder(t)
  \/ \E t \in Threads : snooze_reminder_run(t)
  \/ \E t \in Threads : dismiss_reminder(t)
  \/ \E t \in Threads : dismiss_reminder_run(t)
  \/ \E t \in Threads : delete_event(t)
  \/ \E t \in Threads : delete_event_run(t)
  \/ \E t \in Threads : update_event_note(t)
  \/ \E t \in Threads : update_event_note_run(t)

SpecRows == Init /\ [][NextRows]_vars

\* the behavior analysis task alone
NextBehavior == behavior_poll

SpecBehavior == Init /\ [][NextBehavior]_vars

\* the settings commands
NextSettings ==
  \/ \E t \in Threads : set_setting(t)
  \/ \E t \in Threads : set_setting_run(t)
  \/ \E t \in Threads : get_setting(t)
  \/ \E t \in Threads : get_setting_run(t)
  \/ \E t \in Threads : list_settings(t)
  \/ \E t \in Threads : list_settings_run(t)

SpecSettings == Init /\ [][NextSettings]_vars

\* The three background loops on their own.  The store is the one left by
\* create_reminder for an event that does not exist and a create_text_event
\* with a reminder, a minute ago; no command runs.
LoopsTextRequest ==
  [note |-> "n", textContent |-> Some("body"), remindAt |-> Some(StartTime - 1),
   remindMessage |-> None]

InitLoops ==
  /\ now = StartTime + ClockStep
  /\ opCount = 2
  /\ ticks = 0
  /\ events = <<TextEventRow(1, LoopsTextRequest, StartTime)>>
  /\ attachments = <<>>
  /\ reminders = <<ReminderRow(1, MissingId, StartTime + ClockStep, "m", StartTime),
                   ReminderRow(2, 1, StartTime - 1, "n", StartTime)>>
  /\ lock = NoThread
  /\ pc = [t \in Threads |-> "idle"]
  /\ call = [t \in Threads |-> NoCall]
  /\ loc = [t \in Threads |-> NoLoc]
  /\ last = NoLast
  /\ spc = "sleep"
  /\ tickNow = 0
  /\ due = <<>>
  /\ ehist = <<[nPaths |-> 0, wantsReminder |-> TRUE, deletes |-> 0]>>
  /\ rhist = <<NewReminderHist, NewReminderHist>>
  /\ exports = <<>>
  /\ files = <<>>
  /\ xlog = <<>>
  /\ records = <<>>
  /\ poisoned = FALSE
  /\ beh = BehaviorInit
  /\ snap = <<>>
  /\ settings = <<>>
  /\ shist = [k \in SettingKeys |-> None]
  /\ mouse = MouseInit
  /\ passes = [scanner |-> 0, mouse |-> 0]

\* the store after two text events were created around the second day: each
\* at the last millisecond before the day, at its first, at its last or at the
\* first after it (the wall clock may have been set back between the two);
\* the clock now shows the first millisecond of the third day
DayEdges ==
  {start_of_day(1) - 1, start_of_day(1), end_of_day(1), end_of_day(1) + 1}

DayTextRequests ==
  << [note |-> "n", textContent |-> None, remindAt |-> None,
      remindMessage |-> None],
     [note |-> "n", textContent |-> Some("body"), remindAt |-> None,
      remindMessage |-> None] >>

InitDay ==
  /\ now = end_of_day(1) + 1
  /\ opCount = 0
  /\ ticks = 0
  /\ \E at1 \in DayEdges, at2 \in DayEdges :
       events = <<TextEventRow(1, DayTextRequests[1], at1),
                  TextEventRow(2, DayTextRequests[2], at2)>>
  /\ attachments = <<>>
  /\ reminders = <<>>
  /\ lock = NoThread
  /\ pc = [t \in Threads |-> "idle"]
  /\ call = [t \in Threads |-> NoCall]
  /\ loc = [t \in Threads |-> NoLoc]
  /\ last = NoLast
  /\ spc = "sleep"
  /\ tickNow = 0
  /\ due = <<>>
  /\ ehist = <<[nPaths |-> 0, wantsReminder |-> FALSE, deletes |-> 0],
               [nPaths |-> 0, wantsReminder |-> FALSE, deletes |-> 0]>>
  /\ rhist = <<>>
  /\ exports = <<>>
  /\ files = <<>>
  /\ xlog = <<>>
  /\ records = <<>>
  /\ poisoned = FALSE
  /\ beh = BehaviorInit
  /\ snap = <<>>
  /\ settings = <<>>
  /\ shist = [k \in SettingKeys |-> None]
  /\ mouse = MouseInit
  /\ passes = [scanner |-> 0, mouse |-> 0]

\* the export of a day whose events lie at its edges, some of them deleted
NextDay ==
  \/ \E t \in Threads : delete_event(t)
  \/ \E t \in Threads : delete_event_run(t)
  \/ \E t \in Threads : generate_daily_export(t)
  \/ \E t \in Threads : generate_daily_export_run(t)

SpecDay == InitDay /\ [][NextDay]_vars

\* a pass of the behavior task a second after the one before, with no key
\* held and the button up
BehaviorKeysAtRest ==
  /\ behavior_poll
  /\ beh'.last_keys = {}
  /\ ~beh'.last_mouse_click
  /\ beh'.elapsed \in {0, 10 * PollPeriod}

\* a pass of the mouse task with the button up and the mouse on one line
MouseButtonUp ==
  /\ mouse_poll
  /\ ~mouse'.last_button_pressed
  /\ mouse'.last_y = Some(0)

NextLoops ==
  \/ ScanBegin
  \/ ScanOne
  \/ MouseButtonUp
  \/ BehaviorKeysAtRest

\* each task is scheduled again when its sleep ends
SpecLoops ==
  /\ InitLoops
  /\ [][NextLoops]_vars
  /\ WF_vars(ScanBegin)
  /\ WF_vars(ScanOne)
  /\ WF_vars(MouseButtonUp)
  /\ WF_vars(BehaviorKeysAtRest)

\* the legacy commands, each running to its return once it has the lock
SpecLock ==
  /\ Init
  /\ [][NextLegacy]_vars
  /\ \A t \in Threads : WF_vars(process_drop_paths_insert(t))
  /\ \A t \in Threads : WF_vars(save_mock_result_run(t))

\* ================================================================ claims

\* a command thread is between its open connection and its return
InDbSection(t) == pc[t] # "idle"
\* the scanner is between its open connection and the end of its loop
ScannerInDbSection == spc = "scan"

\* C1: at most one database-accessing section runs at any time: no two
\* commands are inside their open-connection-to-return sections together, and
\* none is inside its section while the scanner is inside its tick's.
C1_OneDatabaseSectionAtATime ==
  /\ \A t1, t2 \in Threads : InDbSection(t1) /\ InDbSection(t2) => t1 = t2
  /\ ScannerInDbSection => \A t \in Threads : ~InDbSection(t)

\* C2: a reminder that a tick read as pending and due, with its parent event
\* in the store, and that no snooze or dismiss has touched, is triggered with
\* triggeredAt set once the tick has processed it, and exactly one
\* reminder-due notification has been published for it, over that tick and
\* all later ones.
C2_DueReminderNotifiedExactlyOnce ==
  \A rid \in ReminderIds :
    rhist[rid].procPending /\ ~rhist[rid].userTouched =>
      /\ reminders[rid].status = "triggered"
      /\ reminders[rid].triggeredAt # None
      /\ rhist[rid].notifs = 1

\* the step is an iteration of the scanner's loop
ScannerStep == spc = "scan" /\ due # <<>> /\ due' = Tail(due)

\* C3: snooze_reminder(id, m) at time t sets status snoozed and snoozeUntil
\* t + m*60000, and a tick whose now is smaller than the stored snoozeUntil of
\* a snoozed reminder leaves the reminder as it is and publishes nothing for it.
C3_SnoozeHoldsUntilDue ==
  [][ /\ \A t \in Threads :
           pc[t] = "snooze" /\ last'.thread = t /\ last'.ret.ok =>
             LET rid == call[t].reminderId IN
             /\ reminders'[rid].status = "snoozed"
             /\ reminders'[rid].snoozeUntil =
                  Some(now + call[t].minutes * 60000)
      /\ ScannerStep =>
           LET rid == Head(due).id IN
           (/\ reminders[rid].status = "snoozed"
            /\ reminders[rid].snoozeUntil[1] > tickNow) =>
             /\ reminders'[rid] = reminders[rid]
             /\ rhist'[rid].notifs = rhist[rid].notifs
    ]_vars

\* C4: the scanner writes to a reminder only when the reminder's status at
\* the moment of the write is pending or snoozed.
C4_ScannerWritesOnlyPendingOrSnoozed ==
  [][ ScannerStep =>
        \A rid \in ReminderIds :
          reminders'[rid] # reminders[rid] =>
            reminders[rid].status \in {"pending", "snoozed"}
    ]_vars

\* C5: for every reminder, snoozeUntil is set if and only if the current
\* status is snoozed.
C5_SnoozeUntilIffSnoozed ==
  \A rid \in ReminderIds :
    reminders[rid].snoozeUntil # None <=> reminders[rid].status = "snoozed"

\* C6, as the claim states it: triggeredAt is set if and only if the status
\* has been triggered at least once.
C6_TriggeredAtIffEverTriggered ==
  \A rid \in ReminderIds :
    reminders[rid].triggeredAt # None <=> rhist[rid].everTriggered

\* C6, amended: for every reminder, triggeredAt is set if and only if the
\* status has been triggered or dismissed at least once.
C6_TriggeredAtIffTriggeredOrDismissed ==
  \A rid \in ReminderIds :
    reminders[rid].triggeredAt # None <=>
      (rhist[rid].everTriggered \/ rhist[rid].everDismissed)

\* a dismissed reminder that was never triggered carries a triggeredAt
C6_Witness ==
  \E rid \in ReminderIds :
    /\ reminders[rid].status = "dismissed"
    /\ ~rhist[rid].everTriggered
    /\ reminders[rid].triggeredAt # None

\* C7: a successful create_drop_event has added exactly one event and one
\* attachment per path (in order, duplicates included) since it was called,
\* every one of them with the new event's id, and returns those same rows.
C7_DropAddsOneEventAndAllAttachments ==
  [][ (last'.call.op = "create_drop_event" /\ last'.ret.ok) =>
        LET t == last'.thread
            paths == last'.call.req.paths
            v == last'.ret.value
            added == SubSeq(attachments', loc[t].attachments0 + 1,
                            Len(attachments'))
        IN /\ paths # <<>>
           /\ Len(events') = loc[t].events0 + 1
           /\ v.event.id = Len(events')
           /\ events'[v.event.id] = v.event
           /\ Len(added) = Len(paths)
           /\ \A i \in 1..Len(paths) :
                /\ added[i].eventId = v.event.id
                /\ added[i].originalPath = paths[i]
           /\ v.attachments = added
           /\ SelectSeq(attachments', LAMBDA a : a.eventId = v.event.id) = added
    ]_vars

\* a drop of two equal paths has returned its event and two attachments
C7_Witness ==
  /\ last.call.op = "create_drop_event"
  /\ last.ret.ok
  /\ Len(last.call.req.paths) = 2
  /\ last.call.req.paths[1] = last.call.req.paths[2]
  /\ Len(AttachmentsOf(last.ret.value.event.id)) = 2

\* C8: create_drop_event with no paths returns an error and writes nothing,
\* also when remindAt is given: it never gets to hold the lock, and the step
\* that returns leaves every table as it was.
C8_EmptyDropRejected ==
  [][ /\ \A t \in Threads :
           call'[t].op = "create_drop_event" => call'[t].req.paths # <<>>
      /\ (last'.call.op = "create_drop_event" /\ last'.call.req.paths = <<>>) =>
           /\ ~last'.ret.ok
           /\ last'.ret.err = "No files provided"
           /\ store' = store
           /\ lock' = lock
    ]_vars

\* an empty drop that asked for a reminder has been refused
C8_Witness ==
  /\ last.call.op = "create_drop_event"
  /\ last.call.req.paths = <<>>
  /\ last.call.req.remindAt # None
  /\ ~last.ret.ok
  /\ events = <<>> /\ reminders = <<>>

\* the drop that creates event eid is still running
DropInProgress(eid) ==
  \E t \in Threads :
    /\ pc[t] \in {"drop_attachment", "drop_reminder"}
    /\ loc[t].event_id = eid

\* C9: whenever no create_drop_event is at work on it, an event created by a
\* drop is in the store together with one attachment per path of its request
\* and with the reminder the request asked for.
C9_DropIsAllOrNothing ==
  \A eid \in EventIds :
    (events[eid].source = Some("drop") /\ ~DropInProgress(eid)) =>
      /\ Len(AttachmentsOf(eid)) = ehist[eid].nPaths
      /\ ehist[eid].wantsReminder => RemindersOf(eid) # <<>>

\* C10: list_events never returns an event whose isDeleted is true, and
\* get_event_detail on the id of a soft-deleted event returns (whenever the
\* storage layer answers) that event with its attachments and reminders.
C10_DeletedHiddenFromListOnly ==
  /\ (last.call.op = "list_events" /\ last.ret.ok) =>
       \A i \in 1..Len(last.ret.value) : ~last.ret.value[i].event.isDeleted
  /\ (/\ last.call.op = "get_event_detail"
      /\ ~last.ret.fault
      /\ last.call.eventId \in EventIds) =>
       LET eid == last.call.eventId IN
       /\ last.ret.ok
       /\ last.ret.value.event = events[eid]
       /\ last.ret.value.attachments = AttachmentsOf(eid)
       /\ last.ret.value.reminders = RemindersOf(eid)

\* get_event_detail has returned a soft-deleted drop event with its rows
C10_Witness ==
  /\ last.call.op = "get_event_detail"
  /\ last.ret.ok
  /\ last.ret.value.event.isDeleted
  /\ last.ret.value.attachments # <<>>
  /\ last.ret.value.reminders # <<>>

\* C11: delete_event on an event id succeeds whenever its statement runs, the
\* first time and again on an event that is deleted already; it leaves the
\* event with isDeleted = true and every other row as it was, so that the
\* second call leaves the store exactly as the first call left it.
C11_DeleteIsIdempotent ==
  [][ (last'.call.op = "delete_event" /\ ~last'.ret.fault) =>
        LET eid == last'.call.eventId IN
        /\ last'.ret.ok
        /\ events' = [events EXCEPT ![eid].isDeleted = TRUE]
        /\ attachments' = attachments /\ reminders' = reminders
        /\ events[eid].isDeleted => store' = store
    ]_vars

\* delete_event has returned success for the second time on the same event
C11_Witness ==
  /\ last.call.op = "delete_event"
  /\ last.ret.ok
  /\ ehist[last.call.eventId].deletes = 2
  /\ events[last.call.eventId].isDeleted

\* the latest export of (date_key, format) that wrote its file
LatestWritten(date_key, format) ==
  LET idx == {i \in 1..Len(xlog) :
                xlog[i].dateKey = date_key /\ xlog[i].format = format}
  IN xlog[CHOOSE i \in idx : \A j \in idx : j <= i]

\* the latest export of (date_key, format) that returned its path
LatestDone(date_key, format) ==
  LET idx == {i \in 1..Len(xlog) :
                /\ xlog[i].dateKey = date_key
                /\ xlog[i].format = format
                /\ xlog[i].done}
  IN xlog[CHOOSE i \in idx : \A j \in idx : j <= i]

\* C12: the store holds at most one daily_exports row per (dateKey,
\* outputFormat); the row's outputPath and createdAt are those of the latest
\* export of that pair that succeeded, and the file at outputPath holds the
\* content the latest export of that pair rendered.
C12_OneExportRowPerDayAndFormat ==
  /\ \A i, j \in 1..Len(exports) :
       (exports[i].dateKey = exports[j].dateKey
        /\ exports[i].outputFormat = exports[j].outputFormat) => i = j
  /\ \A i \in 1..Len(exports) :
       LET row == exports[i] IN
       /\ row.outputPath = OutputPath(row.dateKey, row.outputFormat)
       /\ row.createdAt = LatestDone(row.dateKey, row.outputFormat).at
       /\ row.outputPath \in DOMAIN files
       /\ files[row.outputPath] =
            LatestWritten(row.dateKey, row.outputFormat).content

\* C13: every daily_exports row has outputFormat md or html, and the
\* extension of the file its outputPath names is its outputFormat.
C13_ExportFormatIsMdOrHtml ==
  \A i \in 1..Len(exports) :
    /\ exports[i].outputFormat \in {"md", "html"}
    /\ exports[i].outputPath.ext = exports[i].outputFormat

CalendarDateKeys == {"1970-01-01", "1970-01-02"}

\* C15: generate_daily_export with a date key that names no calendar date
\* returns an error (the invalid-date error, once the connection is open),
\* writes no file and no daily_exports row, and returns with the lock free.
C15_InvalidDateWritesNothing ==
  [][ (/\ last'.call.op = "generate_daily_export"
       /\ last'.call.dateKey \notin CalendarDateKeys) =>
        /\ ~last'.ret.ok
        /\ last'.ret.fault \/ last'.ret.err = "Invalid date format"
        /\ files' = files
        /\ exports' = exports
        /\ store' = store
        /\ lock' = NoThread
    ]_vars

\* an export of 1970-02-30 has been refused as an invalid date
C15_Witness ==
  /\ last.call.op = "generate_daily_export"
  /\ last.call.dateKey = "1970-02-30"
  /\ ~last.ret.ok /\ ~last.ret.fault
  /\ last.ret.err = "Invalid date format"
  /\ lock = NoThread

\* C16: a tick that reaches a due reminder whose parent event does not exist
\* writes nothing and publishes nothing for it; and every tick that reads
\* its due reminders reads every stored reminder that is due, so the
\* reminder is selected again as long as nothing else changes it.
C16_MissingParentIsRetried ==
  [][ /\ ScannerStep =>
           (Head(due).eventId \notin EventIds =>
              /\ reminders' = reminders
              /\ rhist'[Head(due).id].notifs = rhist[Head(due).id].notifs)
      /\ (spc = "sleep" /\ spc' = "scan") =>
           \A rid \in ReminderIds :
             IsDue(reminders[rid], tickNow') =>
               \E i \in 1..Len(due') : due'[i] = reminders[rid]
    ]_vars

\* a reminder whose parent is missing was passed over by a tick, is still
\* pending with no triggeredAt and no notification, and a later tick has
\* selected it again
C16_Witness ==
  \E rid \in ReminderIds :
    /\ reminders[rid].eventId \notin EventIds
    /\ rhist[rid].missed
    /\ reminders[rid].status = "pending"
    /\ reminders[rid].triggeredAt = None
    /\ rhist[rid].notifs = 0
    /\ spc = "scan"
    /\ \E i \in 1..Len(due) : due[i].id = rid

\* the events list_events is asked for: not deleted, inside the inclusive
\* range, newest first
ListedRows(req) ==
  SortEvents(SelectSeq(events, LAMBDA e :
    /\ ~e.isDeleted
    /\ req.startDate # None => req.startDate[1] <= e.createdAt
    /\ req.endDate # None => e.createdAt <= req.endDate[1]))

\* the ranks (from 0) of page number page of pages of page_size rows
OnPage(rank, page, page_size) ==
  page_size > 0 /\ rank \div page_size = page

\* C19: a list_events that succeeds returns exactly the listed rows of ranks
\* page * pageSize to (page + 1) * pageSize - 1, in order, with page 0 and
\* pageSize 50 when not given.
C19_ListReturnsTheRequestedPage ==
  (last.call.op = "list_events" /\ last.ret.ok) =>
    LET req == last.call.req
        page == IF req.page = None THEN 0 ELSE req.page[1]
        page_size == IF req.pageSize = None THEN 50 ELSE req.pageSize[1]
        rows == ListedRows(req)
        ranks == {i \in 1..Len(rows) : OnPage(i - 1, page, page_size)}
        got == last.ret.value
    IN /\ Len(got) = Cardinality(ranks)
       /\ \A k \in 1..Len(got) :
            /\ got[k].event \in {rows[i] : i \in ranks}
            /\ \A j \in 1..(k - 1) :
                 got[j].event.createdAt >= got[k].event.createdAt
       /\ \A i \in ranks : \E k \in 1..Len(got) : got[k].event = rows[i]

\* C20: a save_mock_result whose statements do not fail, with kind summarize,
\* actions or remember, succeeds and sets the summary, actions or memory
\* column of the record with the given id to the content, and changes no
\* other column, no other record and nothing else in the store; with any
\* other kind it fails with "unknown kind"; and whenever it fails every
\* legacy record is as it was.
C20_SaveWritesOneLegacyColumn ==
  [][ last'.call.op = "save_mock_result" =>
        LET c == last'.call
            Written(r) ==
              IF r.id # c.recordId THEN r
              ELSE IF c.kind = "summarize"
                   THEN [r EXCEPT !.summary = Some(c.content)]
              ELSE IF c.kind = "actions"
                   THEN [r EXCEPT !.actions = Some(c.content)]
              ELSE [r EXCEPT !.memory = Some(c.content)]
        IN /\ ~last'.ret.fault =>
                (last'.ret.ok <=> c.kind \in {"summarize", "actions", "remember"})
           /\ (~last'.ret.fault /\ ~last'.ret.ok) =>
                last'.ret.err = "unknown kind"
           /\ last'.ret.ok =>
                records' = [i \in 1..Len(records) |-> Written(records[i])]
           /\ ~last'.ret.ok => records' = records
           /\ store' = store
           /\ <<exports, files>>' = <<exports, files>>
    ]_vars

\* two records are stored and a save has set one column of the second,
\* the first being as it was inserted
C20_Witness ==
  /\ last.call.op = "save_mock_result"
  /\ last.ret.ok
  /\ last.call.kind = "remember"
  /\ Len(records) = 2
  /\ last.call.recordId = 2
  /\ records[2].memory = Some(last.call.content)
  /\ records[2].summary = None
  /\ records[2].actions = None
  /\ records[1].memory = None

\* C17: after a command has returned, with a value or with an error, that
\* command does not hold the store lock and the lock can be taken again: it
\* is not poisoned.
C17_LockFreeAfterEveryReturn ==
  last # NoLast => (lock # last.thread /\ ~poisoned)

\* the ids of the rows of a table
IdsOf(rows) == {rows[i].id : i \in 1..Len(rows)}

\* C18: no step of a command or of the scanner removes a row: the ids of
\* the events, of the attachments and of the reminders after the step
\* include those before it, and every event keeps its id, type and createdAt.
C18_RowsAreNeverRemoved ==
  [][ /\ IdsOf(events) \subseteq IdsOf(events')
      /\ IdsOf(attachments) \subseteq IdsOf(attachments')
      /\ IdsOf(reminders) \subseteq IdsOf(reminders')
      /\ \A i \in 1..Len(events) :
           \E j \in 1..Len(events') :
             /\ events'[j].id = events[i].id
             /\ events'[j].type = events[i].type
             /\ events'[j].createdAt = events[i].createdAt
    ]_vars

\* an event created at an earlier time has had its note replaced and is
\* still stored with the createdAt it was given
C18_Witness ==
  /\ last.call.op = "update_event_note"
  /\ last.ret.ok
  /\ last.call.eventId \in EventIds
  /\ events[last.call.eventId].note = Some(last.call.note)
  /\ events[last.call.eventId].createdAt < now

\* 0.3 * typingSpeed + 0.3 * min(1, mouseMoveSpeed / 1000)
\* + 0.4 * min(1, clicksPerSecond / 5) of a snapshot and its window
WeightedActivity(a, window) ==
  LET clicksPerSecond == FracDiv(Frac(a.mouse_click_count, 1), Frac(window, 10))
  IN FracAdd(FracAdd(
       FracMul(Frac(3, 10), a.typing_speed),
       FracMul(Frac(3, 10),
               FracMin(Frac(1, 1), FracDiv(a.mouse_move_speed, Frac(1000, 1))))),
       FracMul(Frac(4, 10),
               FracMin(Frac(1, 1), FracDiv(clicksPerSecond, Frac(5, 1)))))

\* C21: the activity level of the published behavior snapshot is at least 0
\* and at most 1, and equals min(1, 0.3 * typingSpeed
\* + 0.3 * min(1, mouseMoveSpeed / 1000) + 0.4 * min(1, clicksPerSecond / 5))
\* for the counts and the window (of at least 2 seconds) it was computed from.
C21_ActivityLevelInUnitRange ==
  \A i \in 1..Len(snap) :
    LET a == snap[i].analysis
    IN /\ snap[i].window >= 20
       /\ FracLeq(Frac(0, 1), a.activity_level)
       /\ FracLeq(a.activity_level, Frac(1, 1))
       /\ a.activity_level =
            FracMin(Frac(1, 1), WeightedActivity(a, snap[i].window))

\* a snapshot was published whose weighted sum exceeds 1, after a window
\* with key presses, clicks and mouse movement: its level is the cap
C21_Witness ==
  /\ snap # <<>>
  /\ snap[1].analysis.key_press_count > 0
  /\ snap[1].analysis.mouse_click_count > 0
  /\ snap[1].analysis.mouse_move_speed.num > 0
  /\ ~FracLeq(WeightedActivity(snap[1].analysis, snap[1].window), Frac(1, 1))
  /\ snap[1].analysis.activity_level = Frac(1, 1)

\* C22: the settings are a map with unique keys: a get_setting that does not
\* fail returns the value of the last set_setting of that key that returned
\* Ok, and None when there was none; list_settings returns one pair for each
\* key that was set, with that value, and no key twice.
C22_SettingsAreAMap ==
  /\ (last.call.op = "get_setting" /\ ~last.ret.fault) =>
       /\ last.ret.ok
       /\ last.ret.value = shist[last.call.key]
  /\ (last.call.op = "list_settings" /\ last.ret.ok) =>
       LET pairs == last.ret.value
       IN /\ \A i, j \in 1..Len(pairs) : pairs[i][1] = pairs[j][1] => i = j
          /\ {pairs[i] : i \in 1..Len(pairs)} =
               {<<k, shist[k][1]>> : k \in {x \in SettingKeys : shist[x] # None}}

\* two set_setting calls have set the same key and list_settings has
\* returned a single pair, the key with the second value
C22_Witness ==
  /\ last.call.op = "list_settings"
  /\ last.ret.ok
  /\ opCount = 2
  /\ Len(last.ret.value) = 1
  /\ last.ret.value[1][2] = shist[last.ret.value[1][1]][1]

\* C23: when a tick processes a due reminder whose parent event exists, the
\* reminder is stored as triggered with the tick's now by that step if and
\* only if the step publishes a reminder-due notification for it.
C23_MarkedIffNotified ==
  [][ (ScannerStep /\ Head(due).eventId \in EventIds) =>
        LET rid == Head(due).id
        IN (/\ reminders'[rid].status = "triggered"
            /\ reminders'[rid].triggeredAt = Some(tickNow))
           <=> rhist'[rid].notifs = rhist[rid].notifs + 1
    ]_vars

C25_LoopsNeverTerminate ==
  /\ []<><<ScanBegin>>_vars
  /\ []<><<mouse_poll>>_vars
  /\ []<><<behavior_poll>>_vars

\* the scanner has started a tick after ticks that passed over the reminder
\* whose parent is missing, and the other loops have made passes
C25_Witness ==
  /\ rhist[1].missed
  /\ ticks = MaxTicks
  /\ spc = "sleep"
  /\ passes.scanner = 1
  /\ mouse.last_x # None
  /\ beh.last_mouse_pos # None

\* C26: the store lock cannot deadlock: a thread is inside a command exactly
\* when it holds the lock, so no holder asks for the lock again and at most
\* one command is past its lock() at a time; and whenever the lock is held
\* it is released later, so a command waiting for it gets its turn.
C26_LockCannotDeadlock ==
  /\ [](\A t \in Threads : pc[t] # "idle" <=> lock = t)
  /\ (lock # NoThread) ~> (lock = NoThread)

\* a save_mock_result has written and returned, and the lock it freed is
\* now held by the other thread, inside process_drop_paths
C26_Witness ==
  /\ opCount = 1
  /\ Len(records) = 1
  /\ lock = "t2"
  /\ pc["t2"] = "drop_record"
  /\ pc["t1"] = "idle"

\* C27: a snooze_reminder that returns Ok has set the reminder's status to
\* snoozed and its snoozeUntil to the new time, whatever its status was, and
\* has left its other fields alone; and when a tick processes a reminder that
\* is stored as snoozed with snoozeUntil at or before the tick's now, and whose
\* parent event exists, the reminder is stored as triggered and a
\* reminder-due notification is published for it.
C27_SnoozeRearmsFromEveryStatus ==
  [][ /\ \A t \in Threads :
           pc[t] = "snooze" /\ last'.thread = t /\ last'.ret.ok =>
             LET rid == call[t].reminderId IN
             reminders'[rid] =
               [reminders[rid] EXCEPT
                  !.status = "snoozed",
                  !.snoozeUntil = Some(now + call[t].minutes * 60000)]
      /\ ScannerStep =>
           LET rid == Head(due).id IN
           (/\ reminders[rid].status = "snoozed"
            /\ reminders[rid].snoozeUntil[1] <= tickNow
            /\ reminders[rid].eventId \in EventIds) =>
             /\ reminders'[rid].status = "triggered"
             /\ rhist'[rid].notifs = rhist[rid].notifs + 1
    ]_vars

DayStart(date_key) == IF date_key = "1970-01-02" THEN 86400000 ELSE 0
\* the last millisecond of that day: 23:59:59.999
DayEnd(date_key) == DayStart(date_key) + 86399999

\* the event headings of an exported text, in the order they appear
ExportHeadings(lines) ==
  SelectSeq(lines, LAMBDA l : l.mark \in {"## ", "#<h1>"})

\* a heading shows this event: its title, its icon, its time of day
HeadingShows(l, e) ==
  /\ l.text = UnwrapOr(e.title, "Untitled")
  /\ l.icon = EventIcon(e.type)
  /\ l.n = FormatTime(e.createdAt)

\* C29: an export renders one heading for each stored event that is not
\* soft-deleted and whose createdAt lies between the first and the last
\* millisecond of the day, both included, and for no other event, in
\* ascending createdAt order; the count in its second line is the number of
\* headings.
C29_ExportRendersTheDay ==
  [][ xlog' # xlog =>
        LET x == xlog'[Len(xlog')]
            heads == ExportHeadings(x.content.lines)
            InDay(e) == /\ ~events[e].isDeleted
                        /\ events[e].createdAt >= DayStart(x.dateKey)
                        /\ events[e].createdAt <= DayEnd(x.dateKey)
        IN /\ x.content.lines[2].n = Len(heads)
           /\ \E f \in [1..Len(heads) -> EventIds] :
                /\ \A i, j \in 1..Len(heads) :
                     i < j => /\ f[i] # f[j]
                              /\ events[f[i]].createdAt <= events[f[j]].createdAt
                /\ \A i \in 1..Len(heads) :
                     InDay(f[i]) /\ HeadingShows(heads[i], events[f[i]])
                /\ \A e \in EventIds : InDay(e) => \E i \in 1..Len(heads) : f[i] = e
    ]_vars

\* the second day was exported while the store held an event of its last
\* millisecond, inserted first, and one of its first millisecond; the
\* export shows two records, the later insert first.  Then the day before
\* was exported, with no record: neither event is of that day
C29_Witness ==
  /\ Len(xlog) = 2
  /\ events[1].createdAt = 172799999
  /\ events[2].createdAt = 86400000
  /\ ~events[1].isDeleted /\ ~events[2].isDeleted
  /\ xlog[1].dateKey = "1970-01-02"
  /\ xlog[1].content.lines[2].n = 2
  /\ HeadingShows(ExportHeadings(xlog[1].content.lines)[1], events[2])
  /\ HeadingShows(ExportHeadings(xlog[1].content.lines)[2], events[1])
  /\ xlog[2].dateKey = "1970-01-01"
  /\ xlog[2].content.lines[2].n = 0

\* C30: in an html export the day heading carries the h1 tag in place of
\* its "# " marker, every event heading carries the h2 tag in place of its
\* "## " marker, one per rendered event, and no line keeps a mark with a
\* "#" marker character in it.
C30_HtmlHeadingsBecomeTags ==
  \A i \in 1..Len(xlog) :
    xlog[i].format = "html" =>
      LET lines == xlog[i].content.lines
      IN /\ xlog[i].content.wrap = "html"
         /\ lines[1].mark = "<h1>Daily Record - "
         /\ Len(SelectSeq(lines, LAMBDA l : l.mark = "<h2>")) = lines[2].n
         /\ \A k \in 1..Len(lines) :
              lines[k].mark \notin {"# Daily Record - ", "## ", "#<h1>"}

\* C31: on every pass of the behavior task that samples the backspace key
\* pressed when the pass before sampled it not pressed, the backspace
\* counter grows by one, whatever the other keys did: it is one more after
\* the pass or, when the pass reports, one more in the published snapshot.
C31_BackspaceCountsEveryPress ==
  [][ (/\ behavior_poll
       /\ "Backspace" \in beh'.last_keys
       /\ "Backspace" \notin beh.last_keys) =>
        /\ beh'.elapsed # 0 => beh'.backspace_count = beh.backspace_count + 1
        /\ (beh'.elapsed = 0 /\ snap' # <<>>) =>
             snap'[1].analysis.backspace_count = beh.backspace_count + 1
    ]_vars

\* the counters of the behavior task and its accumulated distance
Counters(b) ==
  <<b.key_press_count, b.backspace_count, b.mouse_click_count,
    b.mouse_move_distance>>

\* C32 (every pass of the behavior task changes beh, and nothing else does):
\* a pass of the behavior task reports when two seconds or more have
\* gone by since the report before (or since the start), and only such a
\* pass publishes a snapshot.  After a reporting pass the three counters and
\* the distance are zero and the reporting clock starts again from that
\* pass; on any other pass no counter decreases and each count grows by one
\* at most; the counts a report publishes are the counts held before the
\* pass plus what the pass itself counted.
C32_ReportEveryTwoSeconds ==
  [][ beh' # beh =>
        LET reported == beh'.elapsed = 0
        IN /\ snap' # <<>> => reported /\ snap'[1].window >= 20
           /\ reported =>
                /\ Counters(beh') = <<0, 0, 0, 0>>
                /\ \E d \in PollDelays : beh.elapsed + d >= 20
           /\ ~reported =>
                /\ beh'.elapsed < 20
                /\ \A i \in 1..3 : Counters(beh')[i] - Counters(beh)[i] \in {0, 1}
                /\ beh'.mouse_move_distance >= beh.mouse_move_distance
           /\ snap' # <<>> =>
                LET a == snap'[1].analysis
                IN /\ a.key_press_count - beh.key_press_count \in {0, 1}
                   /\ a.backspace_count - beh.backspace_count \in {0, 1}
                   /\ a.mouse_click_count - beh.mouse_click_count \in {0, 1}
                   /\ a.key_press_count > beh.key_press_count <=>
                        Cardinality(beh'.last_keys) > Cardinality(beh.last_keys)
                   /\ a.mouse_click_count > beh.mouse_click_count <=>
                        beh'.last_mouse_click /\ ~beh.last_mouse_click
    ]_vars

\* a report after 2.1 seconds has published two key presses, one of them a
\* backspace, and a click, and has left the counters and the distance at zero
C32_Witness ==
  /\ snap # <<>>
  /\ snap[1].window = 21
  /\ snap[1].analysis.key_press_count = 2
  /\ snap[1].analysis.backspace_count = 1
  /\ snap[1].analysis.mouse_click_count = 1
  /\ snap[1].analysis.mouse_move_speed.num > 0
  /\ Counters(beh) = <<0, 0, 0, 0>>
  /\ beh.elapsed = 0

C34_DeletedParentStillNotifies ==
  [][ /\ (/\ ScannerStep
          /\ Head(due).eventId \in EventIds
          /\ events[Head(due).eventId].isDeleted) =>
            LET rid == Head(due).id
            IN /\ reminders'[rid].status = "triggered"
               /\ rhist'[rid].notifs = rhist[rid].notifs + 1
               /\ rhist'[rid].payload # None
               /\ rhist'[rid].payload[1].event = events[Head(due).eventId]
      /\ last'.call.op = "delete_event" => reminders' = reminders
    ]_vars

\* C35: the reminder in a reminder-due notification is the row the tick's
\* due query read: its status is pending or snoozed, its triggeredAt is not
\* the tick's now, and it differs from the reminder as stored once the tick
\* has processed it.
C35_PayloadIsTheRowAsRead ==
  [][ (/\ ScannerStep
       /\ rhist'[Head(due).id].notifs > rhist[Head(due).id].notifs) =>
        LET p == rhist'[Head(due).id].payload[1].reminder
        IN /\ p = Head(due)
           /\ p.status \in {"pending", "snoozed"}
           /\ p.triggeredAt # Some(tickNow)
           /\ reminders'[Head(due).id] # p
    ]_vars

====
